---------------------------- MODULE Spec2Model ----------------------------
(***************************************************************************)
(* Table extraction from screenshots: the multi-provider LLM invocation    *)
(* layer (retry, response parsing), the batch orchestrators and the        *)
(* cross-model reconciler.                                                 *)
(*                                                                         *)
(* Texts (Python str) are sequences of one-character strings.  TLA+ has    *)
(* no literal for the backtick, so that one character is written Backtick. *)
(* Python values (what json.loads returns, what response.content holds)    *)
(* are records [kind, val]:                                                *)
(*    "null" | "bool" | "num" | "str" (val: text) | "arr" (val: sequence)  *)
(*    | "obj" (val: sequence of <<key text, value>>, insertion ordered,    *)
(*    keys unique, as a Python dict).                                      *)
(***************************************************************************)
EXTENDS Integers, Sequences, FiniteSets, TLC

(***************************************************************************)
(* Texts                                                                   *)
(***************************************************************************)
Chars(s) == [i \in 1..Len(s) |-> SubSeq(s, i, i)]

Backtick == "BACKTICK"

\* the whitespace str.strip() removes and the json scanner skips
Ws == {" ", "\n", "\t", "\r"}

\* "```json" and "```" of the call_agent cleaning expression
JsonFence == <<Backtick, Backtick, Backtick>> \o Chars("json")
CloseFence == <<Backtick, Backtick, Backtick>>

RECURSIVE LStrip(_)
LStrip(s) == IF s # <<>> /\ Head(s) \in Ws THEN LStrip(Tail(s)) ELSE s

RECURSIVE RStrip(_)
RStrip(s) ==
    IF s # <<>> /\ s[Len(s)] \in Ws THEN RStrip(SubSeq(s, 1, Len(s) - 1)) ELSE s

\* str.strip()
Strip(s) == RStrip(LStrip(s))

\* str.removeprefix(p)
RemovePrefix(s, p) ==
    IF Len(s) >= Len(p) /\ SubSeq(s, 1, Len(p)) = p
    THEN SubSeq(s, Len(p) + 1, Len(s))
    ELSE s

\* str.removesuffix(p)
RemoveSuffix(s, p) ==
    IF Len(s) >= Len(p) /\ SubSeq(s, Len(s) - Len(p) + 1, Len(s)) = p
    THEN SubSeq(s, 1, Len(s) - Len(p))
    ELSE s

(***************************************************************************)
(* Python values                                                           *)
(***************************************************************************)
JNull == [kind |-> "null", val |-> 0]
JBool(b) == [kind |-> "bool", val |-> b]
JNum(n) == [kind |-> "num", val |-> n]
JStr(t) == [kind |-> "str", val |-> t]
JArr(items) == [kind |-> "arr", val |-> items]
JObj(members) == [kind |-> "obj", val |-> members]

\* d[key] = v on a dict: a present key keeps its position, a new key is appended
DictPut(members, key, v) ==
    IF \E p \in 1..Len(members) : members[p][1] = key
    THEN [p \in 1..Len(members) |->
            IF members[p][1] = key THEN <<key, v>> ELSE members[p]]
    ELSE Append(members, <<key, v>>)

(***************************************************************************)
(* json.loads, for the part of the JSON grammar the texts of this model    *)
(* use: null, true, false, integers, strings with the escapes \" \\ \/ \n  *)
(* \t \r, arrays, objects, whitespace between tokens.                      *)
(***************************************************************************)
DigitSeq == Chars("0123456789")
DigitSet == {DigitSeq[k] : k \in 1..10}
DigitVal(c) == (CHOOSE k \in 1..10 : DigitSeq[k] = c) - 1

ParseFail == [ok |-> FALSE, val |-> JNull, next |-> 0]
ParseOk(v, n) == [ok |-> TRUE, val |-> v, next |-> n]

RECURSIVE SkipWs(_, _)
SkipWs(s, i) == IF i <= Len(s) /\ s[i] \in Ws THEN SkipWs(s, i + 1) ELSE i

MatchAt(s, i, lit) ==
    /\ i + Len(lit) - 1 <= Len(s)
    /\ SubSeq(s, i, i + Len(lit) - 1) = lit

\* the body of a string, from the character after the opening quote
RECURSIVE ScanString(_, _, _)
ScanString(s, j, acc) ==
    IF j > Len(s) THEN ParseFail
    ELSE IF s[j] = "\"" THEN ParseOk(acc, j + 1)
    ELSE IF s[j] = "\\" THEN
        IF j + 1 > Len(s) THEN ParseFail
        ELSE IF s[j + 1] \in {"\"", "\\", "/"}
             THEN ScanString(s, j + 2, Append(acc, s[j + 1]))
        ELSE IF s[j + 1] = "n" THEN ScanString(s, j + 2, Append(acc, "\n"))
        ELSE IF s[j + 1] = "t" THEN ScanString(s, j + 2, Append(acc, "\t"))
        ELSE IF s[j + 1] = "r" THEN ScanString(s, j + 2, Append(acc, "\r"))
        ELSE ParseFail
    ELSE IF s[j] \in {"\n", "\t", "\r"} THEN ParseFail  \* strict: no control character
    ELSE ScanString(s, j + 1, Append(acc, s[j]))

RECURSIVE ScanDigits(_, _, _)
ScanDigits(s, j, acc) ==
    IF j <= Len(s) /\ s[j] \in DigitSet
    THEN ScanDigits(s, j + 1, 10 * acc + DigitVal(s[j]))
    ELSE ParseOk(acc, j)

\* -?(0|[1-9][0-9]*)
ScanNumber(s, i) ==
    LET neg == s[i] = "-"
        j == IF neg THEN i + 1 ELSE i
    IN  IF j > Len(s) \/ s[j] \notin DigitSet THEN ParseFail
        ELSE LET r == IF s[j] = "0" THEN ParseOk(0, j + 1) ELSE ScanDigits(s, j, 0)
             IN  ParseOk(JNum(IF neg THEN 0 - r.val ELSE r.val), r.next)

RECURSIVE ParseValue(_, _)
RECURSIVE ParseItems(_, _, _)
RECURSIVE ParseMembers(_, _, _)

\* the value that starts at s[i]
ParseValue(s, i) ==
    IF i > Len(s) THEN ParseFail
    ELSE IF s[i] = "\"" THEN
        LET r == ScanString(s, i + 1, <<>>)
        IN  IF r.ok THEN ParseOk(JStr(r.val), r.next) ELSE ParseFail
    ELSE IF s[i] = "[" THEN
        LET j == SkipWs(s, i + 1)
        IN  IF j <= Len(s) /\ s[j] = "]" THEN ParseOk(JArr(<<>>), j + 1)
            ELSE ParseItems(s, j, <<>>)
    ELSE IF s[i] = "{" THEN
        LET j == SkipWs(s, i + 1)
        IN  IF j <= Len(s) /\ s[j] = "}" THEN ParseOk(JObj(<<>>), j + 1)
            ELSE ParseMembers(s, j, <<>>)
    ELSE IF s[i] = "-" \/ s[i] \in DigitSet THEN ScanNumber(s, i)
    ELSE IF MatchAt(s, i, Chars("null")) THEN ParseOk(JNull, i + 4)
    ELSE IF MatchAt(s, i, Chars("true")) THEN ParseOk(JBool(TRUE), i + 4)
    ELSE IF MatchAt(s, i, Chars("false")) THEN ParseOk(JBool(FALSE), i + 5)
    ELSE ParseFail

\* the items of an array, from the first character of an item
ParseItems(s, j, acc) ==
    LET r == ParseValue(s, j)
    IN  IF ~r.ok THEN ParseFail
        ELSE LET k == SkipWs(s, r.next)
             IN  IF k > Len(s) THEN ParseFail
                 ELSE IF s[k] = "," THEN
                     ParseItems(s, SkipWs(s, k + 1), Append(acc, r.val))
                 ELSE IF s[k] = "]" THEN ParseOk(JArr(Append(acc, r.val)), k + 1)
                 ELSE ParseFail

\* the members of an object, from the opening quote of a key
ParseMembers(s, j, acc) ==
    IF j > Len(s) \/ s[j] # "\"" THEN ParseFail
    ELSE
      LET key == ScanString(s, j + 1, <<>>)
      IN  IF ~key.ok THEN ParseFail
          ELSE
            LET k == SkipWs(s, key.next)
            IN  IF k > Len(s) \/ s[k] # ":" THEN ParseFail
                ELSE
                  LET v == ParseValue(s, SkipWs(s, k + 1))
                  IN  IF ~v.ok THEN ParseFail
                      ELSE
                        LET m == SkipWs(s, v.next)
                            put == DictPut(acc, key.val, v.val)
                        IN  IF m > Len(s) THEN ParseFail
                            ELSE IF s[m] = "," THEN
                                ParseMembers(s, SkipWs(s, m + 1), put)
                            ELSE IF s[m] = "}" THEN ParseOk(JObj(put), m + 1)
                            ELSE ParseFail

\* json.loads(s): ok = FALSE stands for json.JSONDecodeError
JsonLoads(s) ==
    LET r == ParseValue(s, SkipWs(s, 1))
    IN  IF r.ok /\ SkipWs(s, r.next) = Len(s) + 1
        THEN [ok |-> TRUE, val |-> r.val]
        ELSE [ok |-> FALSE, val |-> JNull]


(***************************************************************************)
(* json.dump / json.dumps: indent = NoIndent is indent=None (separators    *)
(* ", " and ": "), a number n >= 0 is indent=n (one item per line).        *)
(***************************************************************************)
NoIndent == -1

RECURSIVE Spaces(_)
Spaces(n) == IF n <= 0 THEN <<>> ELSE <<" ">> \o Spaces(n - 1)

RECURSIVE NatText(_)
NatText(n) ==
    IF n < 10 THEN <<DigitSeq[n + 1]>>
    ELSE NatText(n \div 10) \o <<DigitSeq[(n % 10) + 1]>>

IntText(n) == IF n < 0 THEN <<"-">> \o NatText(0 - n) ELSE NatText(n)

EscapeChar(c) ==
    IF c = "\"" THEN <<"\\", "\"">>
    ELSE IF c = "\\" THEN <<"\\", "\\">>
    ELSE IF c = "\n" THEN <<"\\", "n">>
    ELSE IF c = "\t" THEN <<"\\", "t">>
    ELSE IF c = "\r" THEN <<"\\", "r">>
    ELSE <<c>>

RECURSIVE Escape(_)
Escape(t) == IF t = <<>> THEN <<>> ELSE EscapeChar(Head(t)) \o Escape(Tail(t))

QuotedText(t) == <<"\"">> \o Escape(t) \o <<"\"">>

RECURSIVE Dumps(_, _, _)
RECURSIVE DumpItems(_, _, _, _)
RECURSIVE DumpMembers(_, _, _, _)

\* what separates two items at nesting level `level`
ItemSeparator(indent, level) ==
    IF indent = NoIndent THEN <<",", " ">>
    ELSE <<",", "\n">> \o Spaces(indent * level)

\* what follows the opening and precedes the closing bracket
OpenBreak(indent, level) ==
    IF indent = NoIndent THEN <<>> ELSE <<"\n">> \o Spaces(indent * level)

Dumps(v, indent, level) ==
    IF v.kind = "null" THEN Chars("null")
    ELSE IF v.kind = "bool" THEN (IF v.val THEN Chars("true") ELSE Chars("false"))
    ELSE IF v.kind = "num" THEN IntText(v.val)
    ELSE IF v.kind = "str" THEN QuotedText(v.val)
    ELSE IF v.kind = "arr" THEN
        IF v.val = <<>> THEN Chars("[]")
        ELSE <<"[">> \o OpenBreak(indent, level + 1)
             \o DumpItems(v.val, 1, indent, level + 1)
             \o OpenBreak(indent, level) \o <<"]">>
    ELSE
        IF v.val = <<>> THEN Chars("{}")
        ELSE <<"{">> \o OpenBreak(indent, level + 1)
             \o DumpMembers(v.val, 1, indent, level + 1)
             \o OpenBreak(indent, level) \o <<"}">>

DumpItems(items, p, indent, level) ==
    Dumps(items[p], indent, level)
    \o (IF p = Len(items) THEN <<>>
        ELSE ItemSeparator(indent, level) \o DumpItems(items, p + 1, indent, level))

DumpMembers(members, p, indent, level) ==
    QuotedText(members[p][1]) \o <<":", " ">> \o Dumps(members[p][2], indent, level)
    \o (IF p = Len(members) THEN <<>>
        ELSE ItemSeparator(indent, level) \o DumpMembers(members, p + 1, indent, level))

(***************************************************************************)
(* File names: str.lower, str.endswith, Path.stem, natsort.natsorted       *)
(***************************************************************************)
\* the characters of the file names of this model, in code point order
CodeOrder == Chars(".0123456789GJNPS_abcdefghijklmnopqrstuvwxyz")
Code(c) == CHOOSE k \in 1..Len(CodeOrder) : CodeOrder[k] = c

UpperSeq == Chars("GJNPS")
LowerSeq == Chars("gjnps")
LowerChar(c) ==
    IF \E k \in 1..Len(UpperSeq) : UpperSeq[k] = c
    THEN LowerSeq[CHOOSE k \in 1..Len(UpperSeq) : UpperSeq[k] = c]
    ELSE c

\* str.lower()
Lower(t) == [p \in 1..Len(t) |-> LowerChar(t[p])]

\* str.endswith(suffix)
EndsWith(t, suffix) ==
    /\ Len(t) >= Len(suffix)
    /\ SubSeq(t, Len(t) - Len(suffix) + 1, Len(t)) = suffix

supported_extensions ==
    {Chars(".png"), Chars(".jpg"), Chars(".jpeg"), Chars(".bmp"), Chars(".gif")}

\* f.lower().endswith(supported_extensions)
IsSupported(f) == \E e \in supported_extensions : EndsWith(Lower(f), e)

\* Path(filename).stem: the name without its last suffix
Stem(f) ==
    LET dots == {p \in 2..Len(f) : f[p] = "."}
    IN  IF dots = {} \/ f[Len(f)] = "." THEN f
        ELSE SubSeq(f, 1, (CHOOSE p \in dots : \A q \in dots : q <= p) - 1)

\* natsort key: the name split into text chunks (odd places) and the numbers
\* between them (even places); a name that starts with a digit gets an empty
\* first text chunk
RECURSIVE NatKeyFrom(_, _, _, _)
NatKeyFrom(t, p, key, inNumber) ==
    IF p > Len(t) THEN key
    ELSE IF t[p] \in DigitSet THEN
        IF inNumber
        THEN NatKeyFrom(t, p + 1,
                 [key EXCEPT ![Len(key)] = 10 * @ + DigitVal(t[p])], TRUE)
        ELSE NatKeyFrom(t, p + 1, Append(key, DigitVal(t[p])), TRUE)
    ELSE
        IF inNumber
        THEN NatKeyFrom(t, p + 1, Append(key, <<t[p]>>), FALSE)
        ELSE NatKeyFrom(t, p + 1,
                 [key EXCEPT ![Len(key)] = Append(@, t[p])], FALSE)

NatKey(t) == NatKeyFrom(t, 1, <<<<>>>>, FALSE)

\* code point order of two texts
RECURSIVE TextLess(_, _)
TextLess(a, b) ==
    IF b = <<>> THEN FALSE
    ELSE IF a = <<>> THEN TRUE
    ELSE IF Head(a) # Head(b) THEN Code(Head(a)) < Code(Head(b))
    ELSE TextLess(Tail(a), Tail(b))

\* tuple order of two natsort keys, from place p on
RECURSIVE KeyLess(_, _, _)
KeyLess(ka, kb, p) ==
    IF p > Len(kb) THEN FALSE
    ELSE IF p > Len(ka) THEN TRUE
    ELSE IF ka[p] = kb[p] THEN KeyLess(ka, kb, p + 1)
    ELSE IF p % 2 = 1 THEN TextLess(ka[p], kb[p])
    ELSE ka[p] < kb[p]

\* a variant that orders the names as texts, as sorted() does
NatLessAsText(a, b) == TextLess(a, b)
\* the order of natsort.natsorted: by the natsort keys of the names
NatLess(a, b) == KeyLess(NatKey(a), NatKey(b), 1)

\* natsort.natsorted(names)
RECURSIVE natsorted(_)
natsorted(names) ==
    IF names = {} THEN <<>>
    ELSE LET first == CHOOSE a \in names : \A b \in names \ {a} : NatLess(a, b)
         IN  <<first>> \o natsorted(names \ {first})

\* a sequence without the items that fail the test
RECURSIVE SelectSupported(_)
SelectSupported(names) ==
    IF names = <<>> THEN <<>>
    ELSE (IF IsSupported(Head(names)) THEN <<Head(names)>> ELSE <<>>)
         \o SelectSupported(Tail(names))

\* [f for f in natsort.natsorted(os.listdir(folder_path))
\*    if f.lower().endswith(supported_extensions)]
ImageFiles(listing) == SelectSupported(natsorted(listing))


(***************************************************************************)
(* Bounds                                                                  *)
(***************************************************************************)
\* largest value of the parameter `retries` of the retrying invoker
MaxRetries == 4
\* largest number of entries of a folder
MaxFiles == 3
\* largest number of messages a thread logs through qa_logging alone
MaxLogs == 3

(***************************************************************************)
(* State                                                                   *)
(***************************************************************************)
VARIABLES
    pc,                 \* position of the running coroutine
    retries,            \* _call_llm_with_retry: parameter retries
    attempt,            \* _call_llm_with_retry: loop variable i
    trace,              \* history: provider calls and sleeps of this invocation
    response,           \* what _call_llm_with_retry returned
    raised,             \* the exception in flight
    mode,               \* which entry point runs
    folder_isdir,       \* os.path.isdir(folder_path)
    listing,            \* os.listdir(folder_path)
    unreadable,         \* files get_image_as_base64 yields nothing for
    prompt_ok,          \* the system prompt file can be read
    image_files,        \* process_folder_sequentially: image_files
    idx,                \* position of the loop in image_files (from 1)
    all_extracted_data, \* process_folder_sequentially: all_extracted_data
    slot_owner,         \* history: the file each appended slot was appended for
    invoked,            \* history: screenshots of every call_agent invocation
    llm_called,         \* history: loop positions a provider call was made at
    failed,             \* history: loop positions call_agent raised at
    agent_result,       \* what call_agent returned
    output_file,        \* the file at output_path
    returned,           \* what the entry point returned
    file_paths,         \* compare_json_files_deepdiff: parameter file_paths
    fs,                 \* the file behind each path of file_paths
    reference_data,     \* compare_json_files_deepdiff: reference_data
    cmp_i,              \* position of the loop in file_paths (from 2)
    opened,             \* history: the positions of file_paths opened, in order
    cmp_result,         \* what compare_json_files_deepdiff returned
    provider,           \* MultiModalTableInterpreter: self.provider
    agent_exists,       \* the constructor returned an agent
    makedirs_called,    \* history: the constructor called os.makedirs
    client,             \* the chat model the agent built for this invocation
    ctx,                \* qa_logging: _thread_local_data of the running thread
    logged,             \* history: the messages logged during this invocation
    api_result,         \* qa_logging: outcome of the last call of its functions
    in_flight,          \* the provider calls issued and not yet completed
    messages,           \* call_agent: what the prompt assembler returned
    audit_writes,       \* history: the audit files written, in order
    tasks,              \* the call_agent coroutines one event loop runs
    log_owner           \* history: the coroutine that logged each message

retryVars == <<retries, attempt, trace, response, raised>>
batchVars == <<mode, folder_isdir, listing, unreadable, prompt_ok, image_files,
               idx, all_extracted_data, slot_owner, invoked, agent_result,
               output_file, returned>>
vars == <<pc, retries, attempt, trace, response, raised, mode, folder_isdir,
          listing, unreadable, prompt_ok, image_files, idx, all_extracted_data,
          slot_owner, invoked, llm_called, failed, agent_result, output_file,
          returned, file_paths, fs, reference_data, cmp_i, opened, cmp_result,
          provider, agent_exists, makedirs_called, client, ctx, logged,
          api_result, in_flight, messages, audit_writes, tasks, log_owner>>
cmpVars == <<file_paths, fs, reference_data, cmp_i, opened, cmp_result>>
agentVars == <<provider, agent_exists, makedirs_called, client>>
logVars == <<ctx, logged, api_result>>
callVars == <<in_flight, messages, audit_writes>>
gatherVars == <<tasks, log_owner>>

(***************************************************************************)
(* utils/qa_logging.py                                                     *)
(***************************************************************************)
\* _thread_local_data without the attribute context_id
NoContext == [has |-> FALSE, id |-> JNull]

\* a variant that stores nothing
set_thread_context_id_forgets(c, context_id) == c
\* _thread_local_data.context_id = context_id
set_thread_context_id(c, context_id) == [has |-> TRUE, id |-> context_id]

\* getattr(_thread_local_data, 'context_id', None); raise Exception("invalid
\* thread_context_id") when it is None
get_thread_context_id(c) ==
    LET thread_context_id == IF c.has THEN c.id ELSE JNull
    IN  IF thread_context_id = JNull
        THEN [raises |-> TRUE, val |-> JNull]
        ELSE [raises |-> FALSE, val |-> thread_context_id]

\* if hasattr(_thread_local_data, 'context_id'): del it
clear_thread_context_id(c) == IF c.has THEN NoContext ELSE c

\* what logger.log receives: the text with the prefix "[CtxID: id] ", or the
\* text alone
LogRecord(context_id, log_data) ==
    [prefixed |-> context_id # JNull, id |-> context_id, text |-> log_data]

\* log_message(log_data) on a thread whose storage is c, after the messages lg
log_message(lg, c, log_data) ==
    LET got == get_thread_context_id(c)
    IN  IF got.raises
        THEN [raises |-> TRUE, logged |-> lg]
        ELSE [raises |-> FALSE, logged |-> Append(lg, LogRecord(got.val, log_data))]

\* log_message called for each text in turn, up to the first call that raises
RECURSIVE LogAll(_, _, _)
LogAll(lg, c, texts) ==
    IF texts = <<>> THEN [raises |-> FALSE, logged |-> lg]
    ELSE LET one == log_message(lg, c, Head(texts))
         IN  IF one.raises THEN one ELSE LogAll(one.logged, c, Tail(texts))

\* Exception("invalid thread_context_id")
InvalidContextError == Chars("invalid thread_context_id")

\* f"{generate_random_prefix(5)}-{threading.get_native_id()}" of the n-th
\* invocation: a text that differs from one invocation to the next
CtxId(n) == JStr(Chars("ctx-") \o NatText(n))

(***************************************************************************)
(* agent/agent_util.py                                                     *)
(***************************************************************************)
\* str.replace(pat, ""): every occurrence of pat, from the left, is removed
RECURSIVE RemoveAll(_, _)
RemoveAll(t, pat) ==
    IF Len(t) < Len(pat) THEN t
    ELSE IF SubSeq(t, 1, Len(pat)) = pat
    THEN RemoveAll(SubSeq(t, Len(pat) + 1, Len(t)), pat)
    ELSE <<Head(t)>> \o RemoveAll(Tail(t), pat)

\* {'type': 'text', 'text': contents}
TextBlock(contents) == [type |-> "text", text |-> contents, url |-> <<>>]
\* {'type': 'image_url', 'image_url': {'url': f'data:image/jpeg;base64,{screenshot}'}}
ImageBlock(screenshot) ==
    [type |-> "image_url", text |-> <<>>,
     url |-> Chars("data:image/jpeg;base64,") \o screenshot]

\* nothing was assembled yet
NoMessages ==
    [made |-> FALSE, human_message |-> <<>>, human_message_without_image |-> <<>>]

\* a variant that attaches the first screenshot only, as
\* generate_system_prompt_with_json_data does with its one screenshot
generate_system_prompt_first_image_only(json_content, screenshots) ==
    LET contents == RemoveAll(Dumps(JStr(json_content), NoIndent, 0), Chars("..."))
    IN  [made |-> TRUE,
         human_message |->
            (IF screenshots # <<>> THEN <<ImageBlock(Head(screenshots))>> ELSE <<>>)
            \o <<TextBlock(contents)>>,
         human_message_without_image |-> <<TextBlock(contents)>>]

\* generate_system_prompt_with_json_data_for_multiple_images once the system
\* prompt was read: the content of human_message and of
\* human_message_without_image (a JSON text json_content is dumped as a JSON
\* string; a screenshot is the Base64 text of an image)
generate_system_prompt_with_json_data_for_multiple_images(json_content, screenshots) ==
    LET contents == RemoveAll(Dumps(JStr(json_content), NoIndent, 0), Chars("..."))
        content_array ==
            [j \in 1..Len(screenshots) |-> ImageBlock(screenshots[j])]
            \o <<TextBlock(contents)>>
    IN  [made |-> TRUE,
         human_message |->
            IF screenshots # <<>> THEN content_array ELSE <<TextBlock(contents)>>,
         human_message_without_image |-> <<TextBlock(contents)>>]

\* no call_agent invocation has assembled or written anything
CallIdle ==
    /\ in_flight = {}
    /\ messages = NoMessages
    /\ audit_writes = <<>>

\* no event loop runs several invocations
GatherIdle ==
    /\ tasks = <<>>
    /\ log_owner = <<>>

\* no agent: the entry point under study takes none
AgentIdle ==
    /\ provider = "none"
    /\ agent_exists = FALSE
    /\ makedirs_called = FALSE
    /\ client = "none"

\* the thread has logged nothing and called nothing of qa_logging
LogQuiet ==
    /\ logged = <<>>
    /\ api_result = [op |-> "none", raises |-> FALSE, val |-> JNull]

(***************************************************************************)
(* The provider                                                            *)
(***************************************************************************)
\* what llm.ainvoke can raise
ProviderErrors == {"timeout", "throttled"}
\* what llm.ainvoke raises during a batch run
BatchErrors == {"timeout"}

\* an AIMessage with the given content; None is NoResponse
AIMessage(content) == [isMessage |-> TRUE, content |-> content]
NoResponse == [isMessage |-> FALSE, content |-> JNull]

\* an exception with its message and its __cause__
Exc(msg, cause) == [isExc |-> TRUE, msg |-> msg, cause |-> cause]
NoExc == [isExc |-> FALSE, msg |-> <<>>, cause |-> "none"]

\* one item of the history of an invocation
CallEvent(i, ok, res, err) ==
    [ev |-> "call", i |-> i, ok |-> ok, dur |-> 0, res |-> res, err |-> err]
WaitEvent(i, dur) ==
    [ev |-> "wait", i |-> i, ok |-> FALSE, dur |-> dur, res |-> NoResponse,
     err |-> "none"]

\* contents a model answers with: JSON texts, fenced JSON texts, other texts,
\* and a content that is a list of blocks instead of a string
ObjA1 == Chars("{\"a\": 1}")
ArrOfOne == Chars("[{\"a\": 1}]")
NotJson == Chars("not json")
Fenced(ws1, body, ws2) == JsonFence \o ws1 \o body \o ws2 \o CloseFence
BlockList == JArr(<<JObj(<< <<Chars("type"), JStr(Chars("text"))>> >>)>>)

\* what the provider answers with during a batch run
BatchContents ==
    {JStr(ObjA1), JStr(Fenced(<<"\n">>, ArrOfOne, <<"\n">>)), JStr(NotJson),
     JStr(Chars("[1, 20]")), JStr(Chars("7"))}

\* values a model is asked to answer with
ObjA1Value == JObj(<< <<Chars("a"), JNum(1)>> >>)
AgentValues ==
    {ObjA1Value,
     JObj(<< <<Chars("rows"), JArr(<<JNum(1), JStr(Chars("x y"))>>)>>,
             <<Chars("b"), JNull>> >>),
     JArr(<<>>),
     JArr(<<ObjA1Value>>),
     JArr(<<JNum(1), JNum(20)>>),
     JNum(7),
     JStr(Chars("a\"b")),
     JStr(CloseFence),
     JBool(TRUE),
     JNull}

\* the JSON texts of a value: json.dumps(v) and json.dumps(v, indent=2)
JsonTextsOf == [v \in AgentValues |-> {Dumps(v, NoIndent, 0), Dumps(v, 2, 0)}]

OuterWs == {<<>>, <<" ", "\n">>}
InnerWs == {<<>>, <<"\n">>}

\* a JSON text of v alone, with whitespace around it
PlainTextsOf ==
    [v \in AgentValues |->
        {w1 \o J \o w4 : w1 \in OuterWs, J \in JsonTextsOf[v], w4 \in OuterWs}]

\* a JSON text of v inside a markdown JSON fence, with whitespace around the
\* fence and between the fence markers and the text
WrappedTextsOf ==
    [v \in AgentValues |->
        {w1 \o Fenced(w2, J, w3) \o w4 :
            w1 \in OuterWs, w2 \in InnerWs, J \in JsonTextsOf[v],
            w3 \in InnerWs, w4 \in OuterWs}]

\* texts that are not JSON, fenced or not
InvalidTexts ==
    {NotJson,
     <<>>,
     Chars("{\"a\": 1"),
     Chars("[1,]"),
     Chars("{'a': 1}"),
     Chars("Here is the table: {\"a\": 1}"),
     JsonFence,
     Fenced(<<"\n">>, NotJson, <<"\n">>),
     Fenced(<<"\n">>, Chars("{\"a\": 1"), <<"\n">>),
     JsonFence \o <<"\n">> \o ObjA1 \o <<"\n">> \o CloseFence \o Chars(" done")}

\* a JSON text with one of the two fence markers only: the closing marker
\* without the opening one, and the opening marker without the closing one
HalfFencedTexts ==
    {ObjA1 \o <<"\n">> \o CloseFence,
     <<" ">> \o ObjA1 \o CloseFence \o <<"\n">>,
     NotJson \o CloseFence,
     JsonFence \o <<"\n">> \o ObjA1}

\* what the provider answers with when one call_agent invocation is studied
AgentContents ==
    {JStr(t) : t \in UNION {PlainTextsOf[v] \cup WrappedTextsOf[v] : v \in AgentValues}}
    \cup {JStr(t) : t \in InvalidTexts}
    \cup {JStr(t) : t \in HalfFencedTexts}
    \cup {BlockList}

ProviderContents == IF mode = "agent" THEN AgentContents ELSE BatchContents

\* the exceptions of the provider in the entry point under study
ErrorsNow == IF mode \in {"retry", "agent"} THEN ProviderErrors ELSE BatchErrors

(***************************************************************************)
(* MultiModalTableInterpreter._call_llm_with_retry                         *)
(***************************************************************************)
\* a variant that compares with retries instead of retries - 1
IsLastAttemptOffByOne(i, n) == i = n
\* if i == retries - 1
IsLastAttempt(i, n) == i = n - 1

\* a variant with a linear delay
BackoffDelayLinear(i) == 2 * i + 1
\* asyncio.sleep(2 ** i)
BackoffDelay(i) == 2 ^ i

\* a variant that starts the provider call as a task of its own and goes on
\* with the loop without awaiting it
LlmInvokeWithoutAwait ==
    /\ UNCHANGED <<messages, audit_writes>>
    /\ UNCHANGED gatherVars
    /\ UNCHANGED agentVars
    /\ UNCHANGED logVars
    /\ UNCHANGED cmpVars
    /\ pc = "invoke"
    /\ attempt < retries
    /\ in_flight' = in_flight \cup {[i |-> idx, attempt |-> attempt]}
    /\ llm_called' = llm_called \cup {idx}
    /\ attempt' = attempt + 1
    /\ UNCHANGED <<pc, retries, trace, response, raised, failed>>
    /\ UNCHANGED batchVars

\* await llm.ainvoke(messages): the call is issued and the coroutine is
\* suspended until the provider answers or fails
LlmInvoke ==
    /\ UNCHANGED <<messages, audit_writes>>
    /\ UNCHANGED gatherVars
    /\ UNCHANGED agentVars
    /\ UNCHANGED logVars
    /\ UNCHANGED cmpVars
    /\ pc = "invoke"
    /\ attempt < retries
    /\ in_flight' = in_flight \cup {[i |-> idx, attempt |-> attempt]}
    /\ llm_called' = llm_called \cup {idx}
    /\ pc' = "awaiting"
    /\ UNCHANGED <<retries, attempt, trace, response, raised, failed>>
    /\ UNCHANGED batchVars

\* a variant without the return: after a success the loop goes on
LlmAttemptSucceedsKeepsLooping ==
    /\ UNCHANGED <<messages, audit_writes>>
    /\ UNCHANGED gatherVars
    /\ UNCHANGED agentVars
    /\ UNCHANGED logVars
    /\ UNCHANGED cmpVars
    /\ pc = "awaiting"
    /\ in_flight' = in_flight \ {[i |-> idx, attempt |-> attempt]}
    /\ \E c \in ProviderContents :
          /\ response' = AIMessage(c)
          /\ trace' = Append(trace, CallEvent(attempt, TRUE, AIMessage(c), "none"))
    /\ UNCHANGED llm_called
    /\ UNCHANGED failed
    /\ pc' = IF IsLastAttempt(attempt, retries) THEN "llm_returned" ELSE "sleep"
    /\ UNCHANGED <<retries, attempt, raised>>
    /\ UNCHANGED batchVars

\* the awaited llm.ainvoke(messages) answers: return response
LlmAttemptSucceeds ==
    /\ UNCHANGED <<messages, audit_writes>>
    /\ UNCHANGED gatherVars
    /\ UNCHANGED agentVars
    /\ UNCHANGED logVars
    /\ UNCHANGED cmpVars
    /\ pc = "awaiting"
    /\ in_flight' = in_flight \ {[i |-> idx, attempt |-> attempt]}
    /\ \E c \in ProviderContents :
          /\ response' = AIMessage(c)
          /\ trace' = Append(trace, CallEvent(attempt, TRUE, AIMessage(c), "none"))
    /\ UNCHANGED llm_called
    /\ UNCHANGED failed
    /\ pc' = "llm_returned"
    /\ UNCHANGED <<retries, attempt, raised>>
    /\ UNCHANGED batchVars

\* the awaited llm.ainvoke(messages) raises: except Exception as e:
\* log_message (which raises when the thread has no context id); raise on
\* the last attempt, else go to sleep
LlmAttemptFails ==
    /\ UNCHANGED <<messages, audit_writes>>
    /\ UNCHANGED gatherVars
    /\ UNCHANGED agentVars
    /\ UNCHANGED <<ctx, api_result>>
    /\ UNCHANGED cmpVars
    /\ pc = "awaiting"
    /\ in_flight' = in_flight \ {[i |-> idx, attempt |-> attempt]}
    /\ \E e \in ErrorsNow :
          LET said == log_message(logged, ctx, "API call attempt failed")
          IN  /\ trace' = Append(trace, CallEvent(attempt, FALSE, NoResponse, e))
              /\ logged' = said.logged
              /\ IF said.raises
                 THEN /\ raised' = Exc(InvalidContextError, "none")
                      /\ failed' = failed \cup {idx}
                      /\ pc' = "llm_raised"
                 ELSE IF IsLastAttempt(attempt, retries)
                 THEN /\ raised' = Exc(Chars("API call failed after all retries"), e)
                      /\ failed' = failed \cup {idx}
                      /\ pc' = "llm_raised"
                 ELSE /\ raised' = raised
                      /\ UNCHANGED failed
                      /\ pc' = "sleep"
    /\ UNCHANGED llm_called
    /\ UNCHANGED <<retries, attempt, response>>
    /\ UNCHANGED batchVars

\* await asyncio.sleep(2 ** i), then the next iteration of the loop
Backoff ==
    /\ UNCHANGED callVars
    /\ UNCHANGED gatherVars
    /\ UNCHANGED agentVars
    /\ UNCHANGED logVars
    /\ UNCHANGED cmpVars
    /\ pc = "sleep"
    /\ trace' = Append(trace, WaitEvent(attempt, BackoffDelay(attempt)))
    /\ attempt' = attempt + 1
    /\ pc' = "invoke"
    /\ UNCHANGED <<retries, response, raised, llm_called, failed>>
    /\ UNCHANGED batchVars

\* the loop ends without a return or a raise: the function returns None
RetryFallThrough ==
    /\ UNCHANGED callVars
    /\ UNCHANGED gatherVars
    /\ UNCHANGED agentVars
    /\ UNCHANGED logVars
    /\ UNCHANGED cmpVars
    /\ pc = "invoke"
    /\ attempt >= retries
    /\ response' = NoResponse
    /\ pc' = "llm_returned"
    /\ UNCHANGED <<retries, attempt, trace, raised, llm_called, failed>>
    /\ UNCHANGED batchVars

\* no comparison is running
CompareIdle ==
    /\ file_paths = <<>>
    /\ fs = <<>>
    /\ reference_data = JNull
    /\ cmp_i = 0
    /\ opened = <<>>
    /\ cmp_result = "none"

\* no batch is running
BatchIdle ==
    /\ folder_isdir = FALSE
    /\ listing = {}
    /\ unreadable = {}
    /\ prompt_ok = TRUE
    /\ image_files = <<>>
    /\ idx = 0
    /\ all_extracted_data = <<>>
    /\ slot_owner = <<>>
    /\ invoked = <<>>
    /\ llm_called = {}
    /\ failed = {}
    /\ agent_result = JNull
    /\ output_file = [written |-> FALSE, text |-> <<>>]
    /\ returned = [done |-> FALSE, val |-> JNull]

\* _call_llm_with_retry(llm, messages, retries) is entered
InitRetry ==
    /\ mode = "retry"
    /\ pc = "invoke"
    /\ retries \in 0..MaxRetries
    /\ attempt = 0
    /\ trace = <<>>
    /\ response = NoResponse
    /\ raised = NoExc
    /\ BatchIdle
    /\ CompareIdle
    /\ AgentIdle
    /\ ctx = set_thread_context_id(NoContext, CtxId(1))
    /\ LogQuiet
    /\ CallIdle
    /\ GatherIdle

NextRetry ==
    \/ LlmInvoke
    \/ LlmAttemptSucceeds
    \/ LlmAttemptFails
    \/ Backoff
    \/ RetryFallThrough

SpecRetry == InitRetry /\ [][NextRetry]_vars

(***************************************************************************)
(* The history of one invocation                                           *)
(***************************************************************************)
CallsOf(t) == SelectSeq(t, LAMBDA ev : ev.ev = "call")
WaitsOf(t) == SelectSeq(t, LAMBDA ev : ev.ev = "wait")


(***************************************************************************)
(* MultiModalTableInterpreter.call_agent                                   *)
(***************************************************************************)
\* the default of the parameter retries, which call_agent relies on
DefaultRetries == 5

\* a variant that only trims
CleanContentNoFence(t) == Strip(t)
\* a variant that removes the closing marker only from a text that began
\* with the opening marker
CleanContentSuffixOnlyIfFenced(t) ==
    IF Len(Strip(t)) >= Len(JsonFence)
       /\ SubSeq(Strip(t), 1, Len(JsonFence)) = JsonFence
    THEN Strip(RemoveSuffix(RemovePrefix(Strip(t), JsonFence), CloseFence))
    ELSE Strip(t)
\* response.content.strip().removeprefix(JsonFence).removesuffix(CloseFence).strip()
CleanContent(t) ==
    Strip(RemoveSuffix(RemovePrefix(Strip(t), JsonFence), CloseFence))

\* a variant that reports the cleaned text instead of the raw content
ParseErrorValueCleaned(content) ==
    JObj(<< <<Chars("error"), JStr(Chars("Failed to parse JSON response"))>>,
            <<Chars("content"),
              IF content.kind = "str" THEN JStr(CleanContent(content.val))
              ELSE content>> >>)
\* {"error": "Failed to parse JSON response", "content": response.content}
ParseErrorValue(content) ==
    JObj(<< <<Chars("error"), JStr(Chars("Failed to parse JSON response"))>>,
            <<Chars("content"), content>> >>)

\* the try/except around json.loads and the return value: a content that is
\* not a str has no strip() (AttributeError, handled); a None response has no
\* content, in the handler either (AttributeError, not handled)
ParseResponse(resp) ==
    IF ~resp.isMessage
    THEN [raises |-> TRUE, handled |-> TRUE, val |-> JNull]
    ELSE IF resp.content.kind # "str"
    THEN [raises |-> FALSE, handled |-> TRUE, val |-> ParseErrorValue(resp.content)]
    ELSE LET r == JsonLoads(CleanContent(resp.content.val))
         IN  IF r.ok THEN [raises |-> FALSE, handled |-> FALSE, val |-> r.val]
             ELSE [raises |-> FALSE, handled |-> TRUE,
                   val |-> ParseErrorValue(resp.content)]

\* the providers __init__ and _get_llm know
SupportedProviders == {"openai", "google", "bedrock"}

\* raise ValueError("Provider must be one of 'openai', 'google', or 'bedrock'")
ProviderValueError == Chars("Provider must be one of 'openai', 'google', or 'bedrock'")
\* raise NotImplementedError(f"Provider '{self.provider}' is not supported.")
NotSupportedError == Chars("Provider is not supported.")

\* a variant that creates the log directory before it looks at the provider
ConstructMakesDirsFirst ==
    /\ UNCHANGED callVars
    /\ UNCHANGED gatherVars
    /\ UNCHANGED cmpVars
    /\ UNCHANGED logVars
    /\ pc = "construct"
    /\ makedirs_called' = TRUE
    /\ IF provider \notin SupportedProviders
       THEN /\ raised' = Exc(ProviderValueError, "none")
            /\ pc' = "construct_raised"
            /\ UNCHANGED agent_exists
       ELSE /\ agent_exists' = TRUE
            /\ pc' = "agent"
            /\ UNCHANGED raised
    /\ UNCHANGED <<provider, client>>
    /\ UNCHANGED <<retries, attempt, trace, response, llm_called, failed>>
    /\ UNCHANGED batchVars

\* MultiModalTableInterpreter.__init__: the provider is checked, the fields
\* are assigned, the log directory is created
Construct ==
    /\ UNCHANGED callVars
    /\ UNCHANGED gatherVars
    /\ UNCHANGED cmpVars
    /\ UNCHANGED logVars
    /\ pc = "construct"
    /\ IF provider \notin SupportedProviders
       THEN /\ raised' = Exc(ProviderValueError, "none")
            /\ pc' = "construct_raised"
            /\ UNCHANGED <<agent_exists, makedirs_called>>
       ELSE /\ agent_exists' = TRUE
            /\ makedirs_called' = TRUE
            /\ pc' = "agent"
            /\ UNCHANGED raised
    /\ UNCHANGED <<provider, client>>
    /\ UNCHANGED <<retries, attempt, trace, response, llm_called, failed>>
    /\ UNCHANGED batchVars

\* _get_llm: the chat model of the provider, or NotImplementedError
get_llm(p) ==
    CASE p = "openai" -> [raises |-> FALSE, client |-> "ChatOpenAI"]
      [] p = "google" -> [raises |-> FALSE, client |-> "ChatGoogleGenerativeAI"]
      [] p = "bedrock" -> [raises |-> FALSE, client |-> "ChatBedrock"]
      [] OTHER -> [raises |-> TRUE, client |-> "none"]

\* a variant that goes on without a system prompt
PromptRaisesNever(ok) == FALSE
\* if (system_prompt == None): raise Exception("Not able to generate system
\* prompt"); system_prompt is None when the prompt file cannot be read
PromptRaises(ok) == ~ok

\* the texts call_agent logs up to the provider call, _get_llm included
PromptLogTexts(ok) ==
    IF ok
    THEN <<"Generating system and human messages for LLM", "Prompt message",
           "Writing text input for LLM", "Calling LLM...", "Initializing LLM">>
    ELSE <<"Generating system and human messages for LLM",
           "Error: .txt file not found", "system_prompt is None">>

\* the texts call_agent logs after the provider call
ParseLogTexts(parsed) ==
    IF parsed.raises THEN <<"Failed to parse JSON from LLM response">>
    ELSE IF parsed.handled
    THEN <<"Failed to parse JSON from LLM response", "Raw response content">>
    ELSE <<"Successfully parsed response from LLM.">>

\* the directory the agent was given as log_base_path
log_base_path == Chars("logs")

\* f'{self.log_base_path}/ai_input_table_extract_{request_id}.txt'
ai_step_input_path(request_id) ==
    log_base_path \o Chars("/ai_input_table_extract_") \o request_id \o Chars(".txt")
\* f'{self.log_base_path}/ai_output_table_extract_{request_id}.json'
ai_step_output_path(request_id) ==
    log_base_path \o Chars("/ai_output_table_extract_") \o request_id \o Chars(".json")

\* open(path, 'w') by the invocation number by: the file is created or
\* truncated, then written
AuditWrite(path, by) == [path |-> path, by |-> by]

\* the call_agent invocation that is running, with its arguments
ThisInvocation == invoked[Len(invoked)]

\* call_agent up to the provider call: the context id is set, the prompt is
\* assembled (an unreadable prompt file raises), the audit input is written,
\* the client is built and _call_llm_with_retry is entered with its default
\* retries
CallAgentPrologue ==
    /\ UNCHANGED in_flight
    /\ UNCHANGED gatherVars
    /\ UNCHANGED cmpVars
    /\ UNCHANGED <<provider, agent_exists, makedirs_called, api_result>>
    /\ pc = "agent"
    /\ LET c == set_thread_context_id(ctx, CtxId(Len(invoked)))
           said == LogAll(<<>>, c, PromptLogTexts(prompt_ok))
           llm == get_llm(provider)
           made == ~said.raises /\ ~PromptRaises(prompt_ok)
       IN  /\ ctx' = c
           /\ logged' = said.logged
           /\ messages' =
                 IF made
                 THEN generate_system_prompt_with_json_data_for_multiple_images(
                          Chars("{}"), ThisInvocation.screenshots)
                 ELSE NoMessages
           /\ audit_writes' =
                 IF made
                 THEN Append(audit_writes,
                             AuditWrite(ai_step_input_path(ThisInvocation.request_id),
                                        Len(invoked)))
                 ELSE audit_writes
           /\ IF said.raises \/ PromptRaises(prompt_ok) \/ llm.raises
              THEN /\ raised' =
                        Exc(IF said.raises THEN InvalidContextError
                            ELSE IF PromptRaises(prompt_ok)
                            THEN Chars("Not able to generate system prompt")
                            ELSE NotSupportedError, "none")
                   /\ pc' = "agent_raised"
                   /\ failed' = failed \cup {idx}
                   /\ UNCHANGED <<retries, attempt, client>>
              ELSE /\ retries' = DefaultRetries
                   /\ attempt' = 0
                   /\ raised' = NoExc
                   /\ client' = llm.client
                   /\ pc' = "invoke"
                   /\ UNCHANGED failed
    /\ trace' = <<>>
    /\ response' = NoResponse
    /\ UNCHANGED llm_called
    /\ UNCHANGED batchVars

\* call_agent after the provider call: parse, log, write the audit output,
\* return
CallAgentReturns ==
    /\ UNCHANGED <<in_flight, messages>>
    /\ UNCHANGED gatherVars
    /\ UNCHANGED agentVars
    /\ UNCHANGED <<ctx, api_result>>
    /\ UNCHANGED cmpVars
    /\ pc = "llm_returned"
    /\ mode # "retry"
    /\ LET parsed == ParseResponse(response)
           said == LogAll(logged, ctx, ParseLogTexts(parsed))
       IN  /\ logged' = said.logged
           /\ audit_writes' =
                 IF said.raises \/ parsed.raises \/ parsed.handled
                 THEN audit_writes
                 ELSE Append(audit_writes,
                             AuditWrite(ai_step_output_path(ThisInvocation.request_id),
                                        Len(invoked)))
           /\ IF said.raises \/ parsed.raises
              THEN /\ raised' =
                        Exc(IF said.raises THEN InvalidContextError
                            ELSE Chars("'NoneType' object has no attribute 'content'"),
                            "none")
                   /\ pc' = "agent_raised"
                   /\ failed' = failed \cup {idx}
                   /\ UNCHANGED agent_result
              ELSE /\ agent_result' = parsed.val
                   /\ pc' = "agent_returned"
                   /\ UNCHANGED <<raised, failed>>
    /\ UNCHANGED <<retries, attempt, trace, response, llm_called>>
    /\ UNCHANGED <<mode, folder_isdir, listing, unreadable, prompt_ok, image_files,
                   idx, all_extracted_data, slot_owner, invoked, output_file,
                   returned>>

(***************************************************************************)
(* process_folder_sequentially                                             *)
(***************************************************************************)
request_id_prefix == Chars("1")

\* {"error": "Failed to encode image", "filename": filename}
EncodeErrorEntry(f) ==
    JObj(<< <<Chars("error"), JStr(Chars("Failed to encode image"))>>,
            <<Chars("filename"), JStr(f)>> >>)

\* {"error": str(e), "filename": filename}
CallErrorEntry(e, f) ==
    JObj(<< <<Chars("error"), JStr(e.msg)>>, <<Chars("filename"), JStr(f)>> >>)

\* a variant that takes the first item of every list that has one
SingleTableDataFirstOfAny(resp) ==
    IF resp.kind = "arr" /\ Len(resp.val) >= 1 THEN resp.val[1] ELSE resp
\* if isinstance(response, list) and len(response) == 1: response[0]
SingleTableData(resp) ==
    IF resp.kind = "arr" /\ Len(resp.val) = 1 THEN resp.val[1] ELSE resp

\* one call of agent.call_agent: its request id and its screenshots (a file
\* name stands for the Base64 text of that file)
Invocation(request_id, screenshots) ==
    [request_id |-> request_id, screenshots |-> screenshots]

\* if not os.path.isdir(folder_path): return
FolderMissing ==
    /\ UNCHANGED callVars
    /\ UNCHANGED gatherVars
    /\ UNCHANGED agentVars
    /\ UNCHANGED logVars
    /\ UNCHANGED cmpVars
    /\ pc = "start"
    /\ ~folder_isdir
    /\ returned' = [done |-> TRUE, val |-> JNull]
    /\ pc' = "done"
    /\ UNCHANGED <<retryVars, llm_called, failed>>
    /\ UNCHANGED <<mode, folder_isdir, listing, unreadable, prompt_ok, image_files,
                   idx, all_extracted_data, slot_owner, invoked, agent_result,
                   output_file>>

\* the file list is built and the loop is entered
SeqStart ==
    /\ UNCHANGED callVars
    /\ UNCHANGED gatherVars
    /\ UNCHANGED agentVars
    /\ UNCHANGED logVars
    /\ UNCHANGED cmpVars
    /\ pc = "start"
    /\ mode = "sequential"
    /\ folder_isdir
    /\ image_files' = ImageFiles(listing)
    /\ idx' = 1
    /\ all_extracted_data' = <<>>
    /\ pc' = "loop"
    /\ UNCHANGED <<retryVars, llm_called, failed>>
    /\ UNCHANGED <<mode, folder_isdir, listing, unreadable, prompt_ok, slot_owner,
                   invoked, agent_result, output_file, returned>>

\* a variant that continues without appending the placeholder
SeqEncodeFailsSkips ==
    /\ UNCHANGED callVars
    /\ UNCHANGED gatherVars
    /\ UNCHANGED agentVars
    /\ UNCHANGED logVars
    /\ UNCHANGED cmpVars
    /\ pc = "loop"
    /\ idx <= Len(image_files)
    /\ image_files[idx] \in unreadable
    /\ idx' = idx + 1
    /\ UNCHANGED <<pc, retryVars, llm_called, failed>>
    /\ UNCHANGED <<mode, folder_isdir, listing, unreadable, prompt_ok, image_files,
                   all_extracted_data, slot_owner, invoked, agent_result,
                   output_file, returned>>

\* get_image_as_base64 yields nothing: the placeholder is appended, continue
SeqEncodeFails ==
    /\ UNCHANGED callVars
    /\ UNCHANGED gatherVars
    /\ UNCHANGED agentVars
    /\ UNCHANGED logVars
    /\ UNCHANGED cmpVars
    /\ pc = "loop"
    /\ idx <= Len(image_files)
    /\ image_files[idx] \in unreadable
    /\ all_extracted_data' =
          Append(all_extracted_data, EncodeErrorEntry(image_files[idx]))
    /\ slot_owner' = Append(slot_owner, image_files[idx])
    /\ idx' = idx + 1
    /\ UNCHANGED <<pc, retryVars, llm_called, failed>>
    /\ UNCHANGED <<mode, folder_isdir, listing, unreadable, prompt_ok, image_files,
                   invoked, agent_result, output_file, returned>>

\* the image is encoded and agent.call_agent is called with this one image
SeqCallAgent ==
    /\ UNCHANGED callVars
    /\ UNCHANGED gatherVars
    /\ UNCHANGED agentVars
    /\ UNCHANGED logVars
    /\ UNCHANGED cmpVars
    /\ pc = "loop"
    /\ idx <= Len(image_files)
    /\ image_files[idx] \notin unreadable
    /\ invoked' = Append(invoked,
          Invocation(request_id_prefix \o <<"_">> \o Stem(image_files[idx]),
                     <<image_files[idx]>>))
    /\ pc' = "agent"
    /\ UNCHANGED <<retryVars, llm_called, failed>>
    /\ UNCHANGED <<mode, folder_isdir, listing, unreadable, prompt_ok, image_files,
                   idx, all_extracted_data, slot_owner, agent_result, output_file,
                   returned>>

\* call_agent returned: the result is unwrapped and appended
SeqAppendResult ==
    /\ UNCHANGED <<in_flight, audit_writes>>
    /\ UNCHANGED gatherVars
    /\ UNCHANGED agentVars
    /\ UNCHANGED <<ctx, api_result>>
    /\ UNCHANGED cmpVars
    /\ pc = "agent_returned"
    /\ mode = "sequential"
    /\ all_extracted_data' = Append(all_extracted_data, SingleTableData(agent_result))
    /\ slot_owner' = Append(slot_owner, image_files[idx])
    /\ idx' = idx + 1
    /\ logged' = <<>>
    /\ messages' = NoMessages
    /\ trace' = <<>>
    /\ response' = NoResponse
    /\ pc' = "loop"
    /\ UNCHANGED <<retries, attempt, raised, llm_called, failed>>
    /\ UNCHANGED <<mode, folder_isdir, listing, unreadable, prompt_ok, image_files,
                   invoked, agent_result, output_file, returned>>

\* a variant that leaves the loop after the error entry
SeqAppendErrorAborts ==
    /\ UNCHANGED <<in_flight, audit_writes>>
    /\ UNCHANGED gatherVars
    /\ UNCHANGED agentVars
    /\ UNCHANGED <<ctx, api_result>>
    /\ UNCHANGED cmpVars
    /\ pc \in {"llm_raised", "agent_raised"}
    /\ mode = "sequential"
    /\ all_extracted_data' =
          Append(all_extracted_data, CallErrorEntry(raised, image_files[idx]))
    /\ slot_owner' = Append(slot_owner, image_files[idx])
    /\ idx' = Len(image_files) + 1
    /\ raised' = NoExc
    /\ logged' = <<>>
    /\ messages' = NoMessages
    /\ trace' = <<>>
    /\ response' = NoResponse
    /\ pc' = "loop"
    /\ UNCHANGED <<retries, attempt, llm_called, failed>>
    /\ UNCHANGED <<mode, folder_isdir, listing, unreadable, prompt_ok, image_files,
                   invoked, agent_result, output_file, returned>>

\* except Exception as e: the error entry is appended, the loop goes on
SeqAppendError ==
    /\ UNCHANGED <<in_flight, audit_writes>>
    /\ UNCHANGED gatherVars
    /\ UNCHANGED agentVars
    /\ UNCHANGED <<ctx, api_result>>
    /\ UNCHANGED cmpVars
    /\ pc \in {"llm_raised", "agent_raised"}
    /\ mode = "sequential"
    /\ all_extracted_data' =
          Append(all_extracted_data, CallErrorEntry(raised, image_files[idx]))
    /\ slot_owner' = Append(slot_owner, image_files[idx])
    /\ idx' = idx + 1
    /\ raised' = NoExc
    /\ logged' = <<>>
    /\ messages' = NoMessages
    /\ trace' = <<>>
    /\ response' = NoResponse
    /\ pc' = "loop"
    /\ UNCHANGED <<retries, attempt, llm_called, failed>>
    /\ UNCHANGED <<mode, folder_isdir, listing, unreadable, prompt_ok, image_files,
                   invoked, agent_result, output_file, returned>>

\* json.dump(all_extracted_data, f, indent=2); return all_extracted_data
SeqWriteOutput ==
    /\ UNCHANGED callVars
    /\ UNCHANGED gatherVars
    /\ UNCHANGED agentVars
    /\ UNCHANGED logVars
    /\ UNCHANGED cmpVars
    /\ pc = "loop"
    /\ idx > Len(image_files)
    /\ output_file' = [written |-> TRUE,
                       text |-> Dumps(JArr(all_extracted_data), 2, 0)]
    /\ returned' = [done |-> TRUE, val |-> JArr(all_extracted_data)]
    /\ pc' = "done"
    /\ UNCHANGED <<retryVars, llm_called, failed>>
    /\ UNCHANGED <<mode, folder_isdir, listing, unreadable, prompt_ok, image_files,
                   idx, all_extracted_data, slot_owner, invoked, agent_result>>

(***************************************************************************)
(* process_images_in_folder (extract_table_multi_model_agent.py)           *)
(***************************************************************************)
\* a sequence without the files that could not be encoded
RECURSIVE SelectReadable(_, _)
SelectReadable(files, bad) ==
    IF files = <<>> THEN <<>>
    ELSE (IF Head(files) \in bad THEN <<>> ELSE <<Head(files)>>)
         \o SelectReadable(Tail(files), bad)

joint_request_id == Chars("1")

\* the images are loaded; without any image the function returns, else
\* agent.call_agent is called once with all of them
JointStart ==
    /\ UNCHANGED callVars
    /\ UNCHANGED gatherVars
    /\ UNCHANGED agentVars
    /\ UNCHANGED logVars
    /\ UNCHANGED cmpVars
    /\ pc = "start"
    /\ mode = "joint"
    /\ folder_isdir
    /\ image_files' = ImageFiles(listing)
    /\ LET table_images == SelectReadable(ImageFiles(listing), unreadable)
       IN  IF table_images = <<>>
           THEN /\ returned' = [done |-> TRUE, val |-> JNull]
                /\ pc' = "done"
                /\ UNCHANGED invoked
           ELSE /\ invoked' = Append(invoked,
                                     Invocation(joint_request_id, table_images))
                /\ pc' = "agent"
                /\ UNCHANGED returned
    /\ UNCHANGED <<retryVars, llm_called, failed>>
    /\ UNCHANGED <<mode, folder_isdir, listing, unreadable, prompt_ok, idx,
                   all_extracted_data, slot_owner, agent_result, output_file>>

\* a variant that writes a list around the response, as the older function does
JointWriteOutputAsList ==
    /\ UNCHANGED callVars
    /\ UNCHANGED gatherVars
    /\ UNCHANGED agentVars
    /\ UNCHANGED logVars
    /\ UNCHANGED cmpVars
    /\ pc = "agent_returned"
    /\ mode = "joint"
    /\ output_file' = [written |-> TRUE,
                       text |-> Dumps(JArr(<<agent_result>>), 2, 0)]
    /\ returned' = [done |-> TRUE, val |-> JArr(<<agent_result>>)]
    /\ pc' = "done"
    /\ UNCHANGED <<retryVars, llm_called, failed>>
    /\ UNCHANGED <<mode, folder_isdir, listing, unreadable, prompt_ok, image_files,
                   idx, all_extracted_data, slot_owner, invoked, agent_result>>
\* json.dump(response, f, indent=2); return response
JointWriteOutput ==
    /\ UNCHANGED callVars
    /\ UNCHANGED gatherVars
    /\ UNCHANGED agentVars
    /\ UNCHANGED logVars
    /\ UNCHANGED cmpVars
    /\ pc = "agent_returned"
    /\ mode = "joint"
    /\ output_file' = [written |-> TRUE, text |-> Dumps(agent_result, 2, 0)]
    /\ returned' = [done |-> TRUE, val |-> agent_result]
    /\ pc' = "done"
    /\ UNCHANGED <<retryVars, llm_called, failed>>
    /\ UNCHANGED <<mode, folder_isdir, listing, unreadable, prompt_ok, image_files,
                   idx, all_extracted_data, slot_owner, invoked, agent_result>>

\* except Exception as e: print; the function ends without writing
JointExcept ==
    /\ UNCHANGED callVars
    /\ UNCHANGED gatherVars
    /\ UNCHANGED agentVars
    /\ UNCHANGED logVars
    /\ UNCHANGED cmpVars
    /\ pc \in {"llm_raised", "agent_raised"}
    /\ mode = "joint"
    /\ raised' = NoExc
    /\ returned' = [done |-> TRUE, val |-> JNull]
    /\ pc' = "done"
    /\ UNCHANGED <<retries, attempt, trace, response, llm_called, failed>>
    /\ UNCHANGED <<mode, folder_isdir, listing, unreadable, prompt_ok, image_files,
                   idx, all_extracted_data, slot_owner, invoked, agent_result,
                   output_file>>

(***************************************************************************)
(* TableInterpreterAgent and process_images_in_folder                      *)
(* (extract_table_agent.py)                                                *)
(***************************************************************************)
\* the default of the parameter retries of call_llm_agent_with_retry
LegacyRetries == 15

\* what llm_with_schema.ainvoke raises in a run of the older agent
LegacyErrors == {"timeout"}

legacy_request_id == Chars("AbCdE")

\* the texts the older call_agent logs up to the provider call
LegacyPromptLogTexts(ok) ==
    IF ok
    THEN <<"generating system input message for llm", "Prompt message",
           "writing system input message for llm", "calling llm">>
    ELSE <<"generating system input message for llm",
           "Error: .txt file not found", "system_prompt is None">>

\* json.loads(response.content): no cleaning, no handler; a content that is
\* not a str is a TypeError
LegacyParse(resp) ==
    IF resp.content.kind # "str"
    THEN [raises |-> TRUE,
          msg |-> Chars("the JSON object must be str, bytes or bytearray, not list"),
          val |-> JNull]
    ELSE LET r == JsonLoads(resp.content.val)
         IN  IF r.ok THEN [raises |-> FALSE, msg |-> <<>>, val |-> r.val]
             ELSE [raises |-> TRUE, msg |-> Chars("Expecting value"), val |-> JNull]

\* the images are loaded and agent.call_agent is called once with those that
\* could be encoded, also when there is none
LegacyStart ==
    /\ UNCHANGED callVars
    /\ UNCHANGED gatherVars
    /\ UNCHANGED agentVars
    /\ UNCHANGED logVars
    /\ UNCHANGED cmpVars
    /\ pc = "start"
    /\ mode = "legacy"
    /\ folder_isdir
    /\ image_files' = ImageFiles(listing)
    /\ all_extracted_data' = <<>>
    /\ invoked' = Append(invoked,
          Invocation(legacy_request_id,
                     SelectReadable(ImageFiles(listing), unreadable)))
    /\ pc' = "legacy_agent"
    /\ UNCHANGED <<retryVars, llm_called, failed>>
    /\ UNCHANGED <<mode, folder_isdir, listing, unreadable, prompt_ok, idx,
                   slot_owner, agent_result, output_file, returned>>

\* f'{self.log_base_path}/ai_input_table_extract{request_id}.txt'
legacy_ai_step_input_path(request_id) ==
    log_base_path \o Chars("/ai_input_table_extract") \o request_id \o Chars(".txt")
\* f'{self.log_base_path}/ai_output_table_extract{request_id}.txt'
legacy_ai_step_output_path(request_id) ==
    log_base_path \o Chars("/ai_output_table_extract") \o request_id \o Chars(".txt")

\* TableInterpreterAgent.call_agent up to the provider call
LegacyCallAgentPrologue ==
    /\ UNCHANGED in_flight
    /\ UNCHANGED gatherVars
    /\ UNCHANGED cmpVars
    /\ UNCHANGED <<provider, agent_exists, makedirs_called, api_result>>
    /\ pc = "legacy_agent"
    /\ LET c == set_thread_context_id(ctx, CtxId(Len(invoked)))
           said == LogAll(<<>>, c, LegacyPromptLogTexts(prompt_ok))
           made == ~said.raises /\ ~PromptRaises(prompt_ok)
       IN  /\ ctx' = c
           /\ logged' = said.logged
           /\ messages' =
                 IF made
                 THEN generate_system_prompt_with_json_data_for_multiple_images(
                          Chars("{}"), ThisInvocation.screenshots)
                 ELSE NoMessages
           /\ audit_writes' =
                 IF made
                 THEN Append(audit_writes,
                             AuditWrite(legacy_ai_step_input_path(ThisInvocation.request_id),
                                        Len(invoked)))
                 ELSE audit_writes
           /\ IF said.raises \/ PromptRaises(prompt_ok)
              THEN /\ raised' =
                        Exc(IF said.raises THEN InvalidContextError
                            ELSE Chars("Not able to generate system prompt"),
                            "none")
                   /\ pc' = "legacy_raised"
                   /\ failed' = failed \cup {idx}
                   /\ UNCHANGED <<retries, attempt, client>>
              ELSE /\ retries' = LegacyRetries
                   /\ attempt' = 0
                   /\ raised' = NoExc
                   /\ client' = "ChatBedrock"
                   /\ pc' = "legacy_invoke"
                   /\ UNCHANGED failed
    /\ trace' = <<>>
    /\ response' = NoResponse
    /\ UNCHANGED llm_called
    /\ UNCHANGED batchVars

\* response = await llm_with_schema.ainvoke(messages); return response
LegacyAttemptSucceeds ==
    /\ UNCHANGED callVars
    /\ UNCHANGED gatherVars
    /\ UNCHANGED agentVars
    /\ UNCHANGED logVars
    /\ UNCHANGED cmpVars
    /\ pc = "legacy_invoke"
    /\ attempt < retries
    /\ \E c \in ProviderContents :
          /\ response' = AIMessage(c)
          /\ trace' = Append(trace, CallEvent(attempt, TRUE, AIMessage(c), "none"))
    /\ llm_called' = llm_called \cup {idx}
    /\ pc' = "legacy_llm_returned"
    /\ UNCHANGED <<retries, attempt, raised, failed>>
    /\ UNCHANGED batchVars

\* except Exception as e: print(e); the next iteration follows at once
LegacyAttemptFails ==
    /\ UNCHANGED callVars
    /\ UNCHANGED gatherVars
    /\ UNCHANGED agentVars
    /\ UNCHANGED logVars
    /\ UNCHANGED cmpVars
    /\ pc = "legacy_invoke"
    /\ attempt < retries
    /\ \E e \in LegacyErrors :
          trace' = Append(trace, CallEvent(attempt, FALSE, NoResponse, e))
    /\ attempt' = attempt + 1
    /\ llm_called' = llm_called \cup {idx}
    /\ UNCHANGED <<pc, retries, response, raised, failed>>
    /\ UNCHANGED batchVars

\* the loop is over: raise Exception("API call failed after retries")
LegacyRetriesExhausted ==
    /\ UNCHANGED callVars
    /\ UNCHANGED gatherVars
    /\ UNCHANGED agentVars
    /\ UNCHANGED logVars
    /\ UNCHANGED cmpVars
    /\ pc = "legacy_invoke"
    /\ attempt >= retries
    /\ raised' = Exc(Chars("API call failed after retries"), "none")
    /\ failed' = failed \cup {idx}
    /\ pc' = "legacy_raised"
    /\ UNCHANGED <<retries, attempt, trace, response, llm_called>>
    /\ UNCHANGED batchVars

\* the older call_agent after the provider call: json.loads, log, write the
\* audit output, return
LegacyCallAgentReturns ==
    /\ UNCHANGED <<in_flight, messages>>
    /\ UNCHANGED gatherVars
    /\ UNCHANGED agentVars
    /\ UNCHANGED <<ctx, api_result>>
    /\ UNCHANGED cmpVars
    /\ pc = "legacy_llm_returned"
    /\ LET parsed == LegacyParse(response)
           said == IF parsed.raises THEN [raises |-> FALSE, logged |-> logged]
                   ELSE log_message(logged, ctx, "response from llm")
       IN  /\ logged' = said.logged
           /\ audit_writes' =
                 IF parsed.raises \/ said.raises
                 THEN audit_writes
                 ELSE Append(audit_writes,
                             AuditWrite(legacy_ai_step_output_path(ThisInvocation.request_id),
                                        Len(invoked)))
           /\ IF parsed.raises \/ said.raises
              THEN /\ raised' = Exc(IF parsed.raises THEN parsed.msg
                                    ELSE InvalidContextError, "none")
                   /\ pc' = "legacy_raised"
                   /\ failed' = failed \cup {idx}
                   /\ UNCHANGED agent_result
              ELSE /\ agent_result' = parsed.val
                   /\ pc' = "legacy_returned"
                   /\ UNCHANGED <<raised, failed>>
    /\ UNCHANGED <<retries, attempt, trace, response, llm_called>>
    /\ UNCHANGED <<mode, folder_isdir, listing, unreadable, prompt_ok, image_files,
                   idx, all_extracted_data, slot_owner, invoked, output_file,
                   returned>>

\* cannot access local variable 'filename': the folder has no entry, so the
\* loop variable the two print calls name was never bound
UnboundFilenameError ==
    Chars("cannot access local variable 'filename' where it is not associated with a value")

\* the end of process_images_in_folder: the response is appended, or the
\* exception is printed; then json.dumps(extracted_data) is written. Both
\* print calls name the loop variable filename: in a folder without any
\* entry the print raises, in the handler too, and nothing is written
LegacyFinish ==
    /\ UNCHANGED callVars
    /\ UNCHANGED gatherVars
    /\ UNCHANGED agentVars
    /\ UNCHANGED logVars
    /\ UNCHANGED cmpVars
    /\ pc \in {"legacy_returned", "legacy_raised"}
    /\ LET extracted_data == IF pc = "legacy_returned" THEN <<agent_result>>
                             ELSE <<>>
       IN  /\ all_extracted_data' = extracted_data
           /\ IF listing = {}
              THEN /\ raised' = Exc(UnboundFilenameError, "none")
                   /\ pc' = "crashed"
                   /\ UNCHANGED <<output_file, returned>>
              ELSE /\ raised' = NoExc
                   /\ output_file' =
                         [written |-> TRUE,
                          text |-> Dumps(JArr(extracted_data), NoIndent, 0)]
                   /\ returned' = [done |-> TRUE, val |-> JArr(extracted_data)]
                   /\ pc' = "done"
    /\ UNCHANGED <<retries, attempt, trace, response, llm_called, failed>>
    /\ UNCHANGED <<mode, folder_isdir, listing, unreadable, prompt_ok, image_files,
                   idx, slot_owner, invoked, agent_result>>

(***************************************************************************)
(* A batch run                                                             *)
(***************************************************************************)
\* the entries a folder can hold
FolderNames ==
    {Chars("section_1.jpg"), Chars("section_2.jpg"), Chars("section_10.jpg"),
     Chars("section_2.PNG"), Chars("notes.txt")}

Init ==
    /\ mode \in {"sequential", "joint", "legacy"}
    /\ pc = "start"
    /\ folder_isdir \in BOOLEAN
    /\ listing \in {l \in SUBSET FolderNames :
                      /\ Cardinality(l) <= MaxFiles
                      /\ (~folder_isdir => l = {})}
    /\ unreadable \in SUBSET {f \in listing : IsSupported(f)}
    /\ prompt_ok \in BOOLEAN
    /\ retries = DefaultRetries
    /\ attempt = 0
    /\ trace = <<>>
    /\ response = NoResponse
    /\ raised = NoExc
    /\ image_files = <<>>
    /\ idx = 0
    /\ all_extracted_data = <<>>
    /\ slot_owner = <<>>
    /\ invoked = <<>>
    /\ llm_called = {}
    /\ failed = {}
    /\ agent_result = JNull
    /\ output_file = [written |-> FALSE, text |-> <<>>]
    /\ returned = [done |-> FALSE, val |-> JNull]
    /\ CompareIdle
    /\ provider = "bedrock"
    /\ agent_exists = TRUE
    /\ makedirs_called = TRUE
    /\ client = "none"
    /\ ctx \in {NoContext, set_thread_context_id(NoContext, CtxId(0))}
    /\ LogQuiet
    /\ CallIdle
    /\ GatherIdle

Next ==
    \/ FolderMissing
    \/ SeqStart
    \/ SeqEncodeFails
    \/ SeqCallAgent
    \/ CallAgentPrologue
    \/ LlmInvoke
    \/ LlmAttemptSucceeds
    \/ LlmAttemptFails
    \/ Backoff
    \/ CallAgentReturns
    \/ SeqAppendResult
    \/ SeqAppendError
    \/ SeqWriteOutput
    \/ JointStart
    \/ JointWriteOutput
    \/ JointExcept
    \/ LegacyStart
    \/ LegacyCallAgentPrologue
    \/ LegacyAttemptSucceeds
    \/ LegacyAttemptFails
    \/ LegacyRetriesExhausted
    \/ LegacyCallAgentReturns
    \/ LegacyFinish

Spec == Init /\ [][Next]_vars


(***************************************************************************)
(* One call_agent invocation                                               *)
(***************************************************************************)
\* the arguments the constructor is given for provider
ProviderArgs == SupportedProviders \cup {"azure", "OpenAI"}

InitAgent ==
    /\ mode = "agent"
    /\ pc = "construct"
    /\ provider \in ProviderArgs
    /\ agent_exists = FALSE
    /\ makedirs_called = FALSE
    /\ client = "none"
    /\ ctx = NoContext
    /\ LogQuiet
    /\ CallIdle
    /\ GatherIdle
    /\ prompt_ok \in BOOLEAN
    /\ retries = DefaultRetries
    /\ attempt = 0
    /\ trace = <<>>
    /\ response = NoResponse
    /\ raised = NoExc
    /\ folder_isdir = FALSE
    /\ listing = {}
    /\ unreadable = {}
    /\ image_files = <<>>
    /\ idx = 0
    /\ all_extracted_data = <<>>
    /\ slot_owner = <<>>
    /\ invoked = <<Invocation(joint_request_id, <<>>)>>
    /\ llm_called = {}
    /\ failed = {}
    /\ agent_result = JNull
    /\ output_file = [written |-> FALSE, text |-> <<>>]
    /\ returned = [done |-> FALSE, val |-> JNull]
    /\ CompareIdle

NextAgent ==
    \/ Construct
    \/ CallAgentPrologue
    \/ LlmInvoke
    \/ LlmAttemptSucceeds
    \/ LlmAttemptFails
    \/ Backoff
    \/ CallAgentReturns

SpecAgent == InitAgent /\ [][NextAgent]_vars

(***************************************************************************)
(* Properties of the retrying invoker (SpecRetry)                          *)
(***************************************************************************)
\* C1: with retries = n >= 1, when the first k-1 provider calls fail and the
\* k-th succeeds (1 <= k <= n), the invoker returns the response of the k-th
\* call after exactly k calls and k-1 backoff waits, and a successful call is
\* always the last event of the invocation: no call, no wait follows it.
C1_ReturnsFirstSuccess ==
    LET calls == CallsOf(trace)
        k == Len(calls)
    IN  /\ \A p \in 1..Len(trace) :
              (trace[p].ev = "call" /\ trace[p].ok) => p = Len(trace)
        /\ (k >= 1 /\ calls[k].ok) =>
              /\ pc = "llm_returned"
              /\ k <= retries
              /\ \A j \in 1..(k - 1) : ~calls[j].ok
              /\ response = calls[k].res
              /\ response.isMessage
              /\ Len(WaitsOf(trace)) = k - 1

\* the spec's example: two failed calls, success on the third
C1_Witness ==
    /\ pc = "llm_returned"
    /\ response.isMessage
    /\ Len(CallsOf(trace)) = 3
    /\ ~CallsOf(trace)[1].ok
    /\ ~CallsOf(trace)[2].ok
    /\ CallsOf(trace)[3].ok
    /\ Len(WaitsOf(trace)) = 2

\* C2: with retries = n >= 1 and a provider that fails on every call, the
\* invoker makes exactly n calls and n-1 waits, none after the last failure,
\* and then raises an exception whose cause is the error of the n-th call.
C2_FailsAfterExactlyNAttempts ==
    LET calls == CallsOf(trace)
        k == Len(calls)
    IN  /\ k <= retries
        /\ (retries >= 1 /\ k = retries /\ \A j \in 1..k : ~calls[j].ok) =>
              /\ pc = "llm_raised"
              /\ raised.isExc
              /\ raised.cause = calls[retries].err
              /\ Len(WaitsOf(trace)) = retries - 1
              /\ trace[Len(trace)] = calls[retries]
        /\ pc = "llm_raised" =>
              /\ k = retries
              /\ \A j \in 1..k : ~calls[j].ok

\* the spec's example: three attempts, all failed
C2_Witness ==
    /\ pc = "llm_raised"
    /\ retries = 3
    /\ Len(CallsOf(trace)) = 3
    /\ Len(WaitsOf(trace)) = 2
    /\ raised.cause = "throttled"
    /\ CallsOf(trace)[1].err = "timeout"

\* C3: the wait after the failed attempt i (from 0) lasts 2^i, so the waits of
\* a run are 1, 2, 4, ...; every wait directly follows the failed attempt i
\* and is directly followed by attempt i+1 (which is pending while the wait is
\* the last event).
C3_ExponentialBackoff ==
    LET waits == WaitsOf(trace)
    IN  /\ \A j \in 1..Len(waits) : waits[j].dur = 2 ^ (j - 1)
        /\ \A j \in 2..Len(waits) : waits[j].dur = 2 * waits[j - 1].dur
        /\ \A p \in 1..Len(trace) :
              trace[p].ev = "wait" =>
                 /\ trace[p].dur = 2 ^ trace[p].i
                 /\ p > 1
                 /\ trace[p - 1].ev = "call"
                 /\ ~trace[p - 1].ok
                 /\ trace[p - 1].i = trace[p].i
                 /\ IF p < Len(trace)
                    THEN trace[p + 1].ev = "call" /\ trace[p + 1].i = trace[p].i + 1
                    ELSE /\ pc \in {"invoke", "awaiting"}
                         /\ attempt = trace[p].i + 1
                         /\ attempt < retries

C3_Witness ==
    /\ Len(WaitsOf(trace)) = 3
    /\ WaitsOf(trace)[1].dur = 1
    /\ WaitsOf(trace)[2].dur = 2
    /\ WaitsOf(trace)[3].dur = 4
    /\ trace[Len(trace)].ev = "call"

(***************************************************************************)
(* Properties of the batch runs (Spec)                                     *)
(***************************************************************************)
SupportedCount == Cardinality({f \in listing : IsSupported(f)})

ReadableFiles == SelectReadable(image_files, unreadable)

SeqDone == mode = "sequential" /\ pc = "done" /\ folder_isdir

\* C4: a sequential run over an existing folder with N supported image files
\* returns and persists an array of exactly N slots, slot i appended for the
\* i-th file of the sorted list; a slot is the encode-error marker of its file
\* exactly when that file could not be encoded; no provider call is made for
\* such a file and call_agent is invoked for every other file, in order.
C4_SlotPerImage ==
    SeqDone =>
        LET N == Len(image_files)
            persisted == JsonLoads(output_file.text)
        IN  /\ N = SupportedCount
            /\ returned.val = JArr(all_extracted_data)
            /\ Len(all_extracted_data) = N
            /\ output_file.written
            /\ persisted.ok
            /\ persisted.val = returned.val
            /\ slot_owner = image_files
            /\ \A i \in 1..N :
                  (all_extracted_data[i] = EncodeErrorEntry(image_files[i]))
                     <=> (image_files[i] \in unreadable)
            /\ \A i \in 1..N : image_files[i] \in unreadable => i \notin llm_called
            /\ Len(invoked) = Len(ReadableFiles)
            /\ \A k \in 1..Len(invoked) : invoked[k].screenshots = <<ReadableFiles[k]>>

\* three images, exactly the middle one fails to encode, the others are parsed
C4_Witness ==
    /\ SeqDone
    /\ Len(image_files) = 3
    /\ unreadable = {image_files[2]}
    /\ all_extracted_data[1] = ObjA1Value
    /\ all_extracted_data[2] = EncodeErrorEntry(image_files[2])
    /\ all_extracted_data[3] = ObjA1Value

\* an error entry for file f: an object with an "error" text and "filename": f
IsErrorEntryFor(entry, f) ==
    /\ entry.kind = "obj"
    /\ Len(entry.val) = 2
    /\ entry.val[1][1] = Chars("error")
    /\ entry.val[1][2].kind = "str"
    /\ entry.val[2] = <<Chars("filename"), JStr(f)>>

\* C5: in a sequential run, when the invocation for image i raises, slot i is
\* an error entry for that image, the batch goes on (every later image gets
\* its slot and, when it can be encoded, its invocation) and the output file
\* is written with N entries.
C5_FailureDoesNotAbort ==
    /\ (mode = "sequential" /\ pc = "loop") =>
          \A i \in failed : i < idx /\ IsErrorEntryFor(all_extracted_data[i], image_files[i])
    /\ SeqDone =>
          /\ output_file.written
          /\ JsonLoads(output_file.text).ok
          /\ Len(JsonLoads(output_file.text).val.val) = Len(image_files)
          /\ \A i \in failed :
                /\ IsErrorEntryFor(all_extracted_data[i], image_files[i])
                /\ \A j \in (i + 1)..Len(image_files) :
                      /\ slot_owner[j] = image_files[j]
                      /\ image_files[j] \notin unreadable =>
                            \E k \in 1..Len(invoked) :
                               invoked[k].screenshots = <<image_files[j]>>

\* retries exhausted for the first of three images, the later two are parsed
C5_Witness ==
    /\ SeqDone
    /\ prompt_ok
    /\ Len(image_files) = 3
    /\ failed = {1}
    /\ llm_called = {1, 2, 3}
    /\ all_extracted_data[1] =
          CallErrorEntry(Exc(Chars("API call failed after all retries"), "timeout"),
                         image_files[1])
    /\ all_extracted_data[3] = ObjA1Value

\* C6 (as claimed): every batch run over an existing folder, sequential or
\* joint, ends with an output file written at output_path.
C6_AlwaysWritesOutput ==
    (pc \in {"done", "crashed"} /\ folder_isdir) => output_file.written

(***************************************************************************)
(* Properties of call_agent (SpecAgent)                                    *)
(***************************************************************************)
\* contents that are not valid JSON after cleaning, or are not a string
InvalidContents == {JStr(t) : t \in InvalidTexts} \cup {BlockList}

\* C7: for a response whose content is not valid JSON after trimming and
\* fence stripping, or is not a string, call_agent returns an error value
\* whose "content" is the raw content, unmodified; and once a response has
\* been received no exception leaves call_agent.
C7_ParseErrorIsData ==
    /\ response.isMessage => pc # "agent_raised"
    /\ (pc = "agent_returned" /\ response.content \in InvalidContents) =>
          /\ agent_result.kind = "obj"
          /\ Len(agent_result.val) = 2
          /\ agent_result.val[1][1] = Chars("error")
          /\ agent_result.val[2] = <<Chars("content"), response.content>>

\* the spec's example: the response body "not json"; here inside a fence
C7_Witness ==
    /\ pc = "agent_returned"
    /\ response.content = JStr(Fenced(<<"\n">>, NotJson, <<"\n">>))
    /\ agent_result.val[2][2] = response.content

\* C8: a response that is a JSON text of a value v inside a markdown JSON
\* fence, with any whitespace around, is parsed to v, as is the JSON text
\* alone; call_agent returns v itself, be it an object, an array or a scalar.
C8_FenceIsTransparent ==
    (pc = "agent_returned" /\ response.content.kind = "str") =>
        \A v \in AgentValues :
            (response.content.val \in (WrappedTextsOf[v] \cup PlainTextsOf[v]))
               => agent_result = v

\* the spec's example: {"a": 1} between the fence markers, on its own line;
\* and an array of one object
C8_Witness ==
    /\ pc = "agent_returned"
    /\ response.content.kind = "str"
    /\ response.content.val \in WrappedTextsOf[JArr(<<ObjA1Value>>)]
    /\ agent_result = JArr(<<ObjA1Value>>)


(***************************************************************************)
(* compare_json_files_deepdiff                                             *)
(***************************************************************************)
\* largest number of paths given to one comparison
MaxPaths == 3

\* DeepHash of an item as DeepDiff computes it under ignore_order=True with
\* the default report_repetition=False: the items of a list are hashed, the
\* repeated hashes are dropped and the rest is sorted, so a list counts as
\* the set of its items; a dict counts as its key to hash pairs
RECURSIVE DeepHash(_)
DeepHash(v) ==
    IF v.kind = "arr"
    THEN [kind |-> "arr", val |-> {DeepHash(v.val[p]) : p \in 1..Len(v.val)}]
    ELSE IF v.kind = "obj"
    THEN [kind |-> "obj",
          val |-> {<<v.val[p][1], DeepHash(v.val[p][2])>> : p \in 1..Len(v.val)}]
    ELSE v

DictKeys(v) == {v.val[p][1] : p \in 1..Len(v.val)}
DictGet(v, key) == v.val[CHOOSE p \in 1..Len(v.val) : v.val[p][1] = key][2]

\* DeepDiff(t1, t2, ignore_order=False) is not empty
RECURSIVE HasDiffOrdered(_, _)
HasDiffOrdered(t1, t2) ==
    IF t1.kind # t2.kind THEN TRUE
    ELSE IF t1.kind = "obj" THEN
        \/ DictKeys(t1) # DictKeys(t2)
        \/ \E key \in DictKeys(t1) : HasDiffOrdered(DictGet(t1, key), DictGet(t2, key))
    ELSE IF t1.kind = "arr" THEN
        \/ Len(t1.val) # Len(t2.val)
        \/ \E p \in 1..Len(t1.val) : HasDiffOrdered(t1.val[p], t2.val[p])
    ELSE t1.val # t2.val

\* diff = DeepDiff(reference_data, current_data, ignore_order=True); if diff:
\* a type change, an added or removed dict key, a changed value, or a list
\* whose item hashes are not those of the other list
RECURSIVE HasDiff(_, _)
HasDiff(t1, t2) ==
    IF t1.kind # t2.kind THEN TRUE
    ELSE IF t1.kind = "obj" THEN
        \/ DictKeys(t1) # DictKeys(t2)
        \/ \E key \in DictKeys(t1) : HasDiff(DictGet(t1, key), DictGet(t2, key))
    ELSE IF t1.kind = "arr" THEN
        {DeepHash(t1.val[p]) : p \in 1..Len(t1.val)}
           # {DeepHash(t2.val[p]) : p \in 1..Len(t2.val)}
    ELSE t1.val # t2.val

\* a file: absent, present with a text, or present but not readable as text;
\* why is the exception open() or f.read() raises on it
MissingFile == [exists |-> FALSE, readable |-> FALSE, why |-> "FileNotFoundError",
                text |-> <<>>]
TextFile(t) == [exists |-> TRUE, readable |-> TRUE, why |-> "none", text |-> t]
UnreadableFile(why) == [exists |-> TRUE, readable |-> FALSE, why |-> why,
                        text |-> <<>>]

\* a directory, a file without read permission, bytes that are not UTF-8
UnreadableWhys == {"IsADirectoryError", "PermissionError", "UnicodeDecodeError"}

\* the exceptions the two try blocks catch
CaughtErrors == {"FileNotFoundError", "JSONDecodeError"}

\* what open() and json.load(f) do with a file: the value, or the exception
LoadFile(f) ==
    IF ~f.exists \/ ~f.readable
    THEN [ok |-> FALSE, err |-> f.why, val |-> JNull]
    ELSE LET loaded == JsonLoads(f.text)
         IN  IF loaded.ok THEN [ok |-> TRUE, err |-> "none", val |-> loaded.val]
             ELSE [ok |-> FALSE, err |-> "JSONDecodeError", val |-> JNull]

\* a variant that asks for one path only
TooFewLessThanOne(n) == n < 1
\* len(file_paths) < 2
TooFew(n) == n < 2

\* if len(file_paths) < 2: return "NO_COMPARISON"
CmpTooFew ==
    /\ UNCHANGED callVars
    /\ UNCHANGED gatherVars
    /\ UNCHANGED agentVars
    /\ UNCHANGED logVars
    /\ pc = "cmp_start"
    /\ TooFew(Len(file_paths))
    /\ cmp_result' = "NO_COMPARISON"
    /\ pc' = "cmp_done"
    /\ UNCHANGED <<file_paths, fs, reference_data, cmp_i, opened>>
    /\ UNCHANGED <<retryVars, llm_called, failed>>
    /\ UNCHANGED batchVars

\* the first path is loaded as the reference; an exception that is neither
\* FileNotFoundError nor JSONDecodeError leaves the function
CmpLoadReference ==
    /\ UNCHANGED callVars
    /\ UNCHANGED gatherVars
    /\ UNCHANGED agentVars
    /\ UNCHANGED logVars
    /\ pc = "cmp_start"
    /\ ~TooFew(Len(file_paths))
    /\ opened' = Append(opened, 1)
    /\ LET loaded == LoadFile(fs[file_paths[1]])
       IN  IF loaded.ok
           THEN /\ reference_data' = loaded.val
                /\ cmp_i' = 2
                /\ pc' = "cmp_loop"
                /\ UNCHANGED <<cmp_result, raised>>
           ELSE IF loaded.err \in CaughtErrors
           THEN /\ cmp_result' = "FAILED"
                /\ pc' = "cmp_done"
                /\ UNCHANGED <<reference_data, cmp_i, raised>>
           ELSE /\ raised' = Exc(Chars(loaded.err), "none")
                /\ pc' = "cmp_raised"
                /\ UNCHANGED <<reference_data, cmp_i, cmp_result>>
    /\ UNCHANGED <<file_paths, fs>>
    /\ UNCHANGED <<retries, attempt, trace, response, llm_called, failed>>
    /\ UNCHANGED batchVars

\* a variant that goes on to the next path when a candidate is not found
CmpLoadAndCompareSkipsMissing ==
    /\ UNCHANGED callVars
    /\ UNCHANGED gatherVars
    /\ UNCHANGED agentVars
    /\ UNCHANGED logVars
    /\ pc = "cmp_loop"
    /\ cmp_i <= Len(file_paths)
    /\ opened' = Append(opened, cmp_i)
    /\ LET loaded == LoadFile(fs[file_paths[cmp_i]])
       IN  IF (loaded.ok /\ ~HasDiff(reference_data, loaded.val))
              \/ loaded.err = "FileNotFoundError"
           THEN /\ cmp_i' = cmp_i + 1
                /\ UNCHANGED <<pc, cmp_result, raised>>
           ELSE IF loaded.ok \/ loaded.err \in CaughtErrors
           THEN /\ cmp_result' = "FAILED"
                /\ pc' = "cmp_done"
                /\ UNCHANGED <<cmp_i, raised>>
           ELSE /\ raised' = Exc(Chars(loaded.err), "none")
                /\ pc' = "cmp_raised"
                /\ UNCHANGED <<cmp_i, cmp_result>>
    /\ UNCHANGED <<file_paths, fs, reference_data>>
    /\ UNCHANGED <<retries, attempt, trace, response, llm_called, failed>>
    /\ UNCHANGED batchVars

\* one iteration of the loop over file_paths[1:]: load, DeepDiff, return
\* "FAILED" on a difference or on one of the two caught exceptions; any other
\* exception leaves the function
CmpLoadAndCompare ==
    /\ UNCHANGED callVars
    /\ UNCHANGED gatherVars
    /\ UNCHANGED agentVars
    /\ UNCHANGED logVars
    /\ pc = "cmp_loop"
    /\ cmp_i <= Len(file_paths)
    /\ opened' = Append(opened, cmp_i)
    /\ LET loaded == LoadFile(fs[file_paths[cmp_i]])
       IN  IF loaded.ok /\ ~HasDiff(reference_data, loaded.val)
           THEN /\ cmp_i' = cmp_i + 1
                /\ UNCHANGED <<pc, cmp_result, raised>>
           ELSE IF loaded.ok \/ loaded.err \in CaughtErrors
           THEN /\ cmp_result' = "FAILED"
                /\ pc' = "cmp_done"
                /\ UNCHANGED <<cmp_i, raised>>
           ELSE /\ raised' = Exc(Chars(loaded.err), "none")
                /\ pc' = "cmp_raised"
                /\ UNCHANGED <<cmp_i, cmp_result>>
    /\ UNCHANGED <<file_paths, fs, reference_data>>
    /\ UNCHANGED <<retries, attempt, trace, response, llm_called, failed>>
    /\ UNCHANGED batchVars

\* the loop is over: return "SUCCESS"
CmpAllMatch ==
    /\ UNCHANGED callVars
    /\ UNCHANGED gatherVars
    /\ UNCHANGED agentVars
    /\ UNCHANGED logVars
    /\ pc = "cmp_loop"
    /\ cmp_i > Len(file_paths)
    /\ cmp_result' = "SUCCESS"
    /\ pc' = "cmp_done"
    /\ UNCHANGED <<file_paths, fs, reference_data, cmp_i, opened>>
    /\ UNCHANGED <<retryVars, llm_called, failed>>
    /\ UNCHANGED batchVars

\* the values the compared files hold
RowA1 == JObj(<< <<Chars("a"), JNum(1)>> >>)
RowB2 == JObj(<< <<Chars("b"), JNum(2)>> >>)
RowB3 == JObj(<< <<Chars("b"), JNum(3)>> >>)
RowC2 == JObj(<< <<Chars("c"), JNum(2)>> >>)
Docs ==
    {JArr(<<RowA1, RowB2>>),
     JArr(<<RowB2, RowA1>>),
     JArr(<<RowA1, RowB3>>),
     JArr(<<RowA1, RowC2>>),
     JArr(<<RowA1, RowB2, RowB2>>),
     JArr(<<JArr(<<JNum(1), JNum(2)>>), JArr(<<JNum(3)>>)>>),
     JArr(<<JArr(<<JNum(3)>>), JArr(<<JNum(2), JNum(1)>>)>>),
     JArr(<<JArr(<<JNum(1)>>), JArr(<<JNum(2), JNum(3)>>)>>),
     JObj(<< <<Chars("rows"), JArr(<<RowA1, RowB2>>)>>, <<Chars("n"), JNum(2)>> >>),
     JObj(<< <<Chars("n"), JNum(2)>>, <<Chars("rows"), JArr(<<RowB2, RowA1>>)>> >>)}

\* the text json.dump(v, f, indent=2) leaves in an output file
DocText == [v \in Docs |-> Dumps(v, 2, 0)]

\* texts of files that json.load rejects: not JSON at all, and an empty file
InvalidFileTexts == {NotJson, <<>>}

FileStates ==
    {MissingFile}
    \cup {UnreadableFile(why) : why \in UnreadableWhys}
    \cup {TextFile(t) : t \in InvalidFileTexts}
    \cup {TextFile(DocText[v]) : v \in Docs}

InitCompare ==
    /\ mode = "compare"
    /\ pc = "cmp_start"
    /\ file_paths \in {[p \in 1..n |-> p] : n \in 0..MaxPaths}
    /\ fs \in [1..Len(file_paths) -> FileStates]
    /\ reference_data = JNull
    /\ cmp_i = 0
    /\ opened = <<>>
    /\ cmp_result = "none"
    /\ retries = DefaultRetries
    /\ attempt = 0
    /\ trace = <<>>
    /\ response = NoResponse
    /\ raised = NoExc
    /\ BatchIdle
    /\ AgentIdle
    /\ ctx = NoContext
    /\ LogQuiet
    /\ CallIdle
    /\ GatherIdle

NextCompare ==
    \/ CmpTooFew
    \/ CmpLoadReference
    \/ CmpLoadAndCompare
    \/ CmpAllMatch

SpecCompare == InitCompare /\ [][NextCompare]_vars

(***************************************************************************)
(* Properties of the reconciler (SpecCompare)                              *)
(***************************************************************************)
\* the value a file was written from
HoldsDoc(f) == f.exists /\ f.readable /\ \E v \in Docs : DocText[v] = f.text
DocOf(f) == CHOOSE v \in Docs : DocText[v] = f.text

AllLoadable == \A p \in 1..Len(file_paths) : HoldsDoc(fs[file_paths[p]])

\* a and b are equal up to the order of the items of their lists, at any depth
RECURSIVE PermEq(_, _)
PermEq(a, b) ==
    IF a.kind # b.kind THEN FALSE
    ELSE IF a.kind = "obj" THEN
        /\ DictKeys(a) = DictKeys(b)
        /\ \A key \in DictKeys(a) : PermEq(DictGet(a, key), DictGet(b, key))
    ELSE IF a.kind = "arr" THEN
        /\ Len(a.val) = Len(b.val)
        /\ \E f \in Permutations(1..Len(a.val)) :
              \A p \in 1..Len(a.val) : PermEq(a.val[p], b.val[f[p]])
    ELSE a.val = b.val

\* the scalars of a value with the dict keys that lead to them
ListStep == <<"[]">>
RECURSIVE Leaves(_, _)
Leaves(v, path) ==
    IF v.kind = "arr" /\ v.val # <<>>
    THEN UNION {Leaves(v.val[p], Append(path, ListStep)) : p \in 1..Len(v.val)}
    ELSE IF v.kind = "obj" /\ v.val # <<>>
    THEN UNION {Leaves(v.val[p][2], Append(path, v.val[p][1])) : p \in 1..Len(v.val)}
    ELSE {<<path, v>>}

\* b has a value or a dict key that a has not, or the other way round
DiffersInValueOrKey(a, b) == Leaves(a, <<>>) # Leaves(b, <<>>)

\* a and b are lists of the same distinct items that differ in how often an
\* item occurs
DiffersInRepetitionOnly(a, b) ==
    /\ a.kind = "arr"
    /\ b.kind = "arr"
    /\ {a.val[p] : p \in 1..Len(a.val)} = {b.val[p] : p \in 1..Len(b.val)}
    /\ ~PermEq(a, b)

Reference == DocOf(fs[file_paths[1]])
Candidates == {DocOf(fs[file_paths[p]]) : p \in 2..Len(file_paths)}

CmpDoneOnLoadable == pc = "cmp_done" /\ Len(file_paths) >= 2 /\ AllLoadable

\* C9: over two or more loadable JSON files the comparison returns SUCCESS
\* when every candidate equals the reference up to the order of list items at
\* any depth, and FAILED when some candidate differs from the reference in a
\* value or in a dict key.
C9_OrderInsensitiveCompare ==
    CmpDoneOnLoadable =>
        /\ (\A c \in Candidates : PermEq(Reference, c)) => cmp_result = "SUCCESS"
        /\ (\E c \in Candidates : DiffersInValueOrKey(Reference, c))
              => cmp_result = "FAILED"

\* the spec's example: [{"a":1},{"b":2}] against [{"b":2},{"a":1}]
C9_Witness ==
    /\ CmpDoneOnLoadable
    /\ Len(file_paths) = 2
    /\ Reference = JArr(<<RowA1, RowB2>>)
    /\ Candidates = {JArr(<<RowB2, RowA1>>)}
    /\ cmp_result = "SUCCESS"

\* C10 (as claimed): two lists of the same distinct items that differ in how
\* often an item occurs are a mismatch: the comparison returns FAILED.
C10_RepetitionIsMismatch ==
    CmpDoneOnLoadable =>
        ((\E c \in Candidates : DiffersInRepetitionOnly(Reference, c))
            => cmp_result = "FAILED")


CmpLabels == {"SUCCESS", "FAILED", "NO_COMPARISON"}

\* the comparison is over: it returned or it raised
CmpOver == pc \in {"cmp_done", "cmp_raised"}

\* C11: with no path or with one path the comparison returns NO_COMPARISON
\* and opens no file, whatever the state of that one file is.
C11_TooFewPathsNoComparison ==
    (CmpOver /\ Len(file_paths) \in {0, 1}) =>
        /\ pc = "cmp_done"
        /\ cmp_result = "NO_COMPARISON"
        /\ opened = <<>>

\* one path that does not exist
C11_Witness ==
    /\ pc = "cmp_done"
    /\ Len(file_paths) = 1
    /\ fs[file_paths[1]] = MissingFile
    /\ cmp_result = "NO_COMPARISON"
    /\ opened = <<>>

\* the file does not exist, or its text is not JSON
MissingOrInvalid(f) ==
    \/ ~f.exists
    \/ f.exists /\ f.readable /\ f.text \in InvalidFileTexts

\* the positions of file_paths that were opened
Reached == {opened[k] : k \in 1..Len(opened)}

\* C12: with two or more paths the comparison returns FAILED when the
\* reference is missing or not JSON, whatever the other files hold and without
\* opening them, returns FAILED when a candidate it reaches is missing or not
\* JSON, and never returns SUCCESS when some listed file is missing or not
\* JSON.
C12_MissingOrInvalidFails ==
    (CmpOver /\ Len(file_paths) >= 2) =>
        /\ MissingOrInvalid(fs[file_paths[1]])
              => (cmp_result = "FAILED" /\ opened = <<1>>)
        /\ \A p \in Reached :
              MissingOrInvalid(fs[file_paths[p]]) => cmp_result = "FAILED"
        /\ (\E p \in 1..Len(file_paths) : MissingOrInvalid(fs[file_paths[p]]))
              => cmp_result # "SUCCESS"

\* a candidate that matches the reference is followed by one that is missing
C12_Witness ==
    /\ pc = "cmp_done"
    /\ Len(file_paths) = 3
    /\ HoldsDoc(fs[file_paths[1]])
    /\ HoldsDoc(fs[file_paths[2]])
    /\ fs[file_paths[3]] = MissingFile
    /\ opened = <<1, 2, 3>>
    /\ cmp_result = "FAILED"

\* C13 (as claimed): the comparison never raises and, when it is over, has
\* returned one of SUCCESS, FAILED and NO_COMPARISON, for every state of the
\* listed files, a file that is present but not readable included.
C13_AlwaysReturnsALabel ==
    /\ pc # "cmp_raised"
    /\ CmpOver => cmp_result \in CmpLabels


(***************************************************************************)
(* Properties of the file list (Spec)                                      *)
(***************************************************************************)
\* the entries of FolderNames that are images, and the number in each name
ImageNames ==
    {Chars("section_1.jpg"), Chars("section_2.jpg"), Chars("section_10.jpg"),
     Chars("section_2.PNG")}
EmbeddedNumber(f) ==
    CASE f = Chars("section_1.jpg") -> 1
      [] f = Chars("section_2.jpg") -> 2
      [] f = Chars("section_2.PNG") -> 2
      [] f = Chars("section_10.jpg") -> 10

\* the files of a sequence are in the order of the numbers in their names
InNumberOrder(files) ==
    \A i, j \in 1..Len(files) :
        i < j => EmbeddedNumber(files[i]) <= EmbeddedNumber(files[j])

\* a sequence holds each file of a set once and nothing else
ListsExactly(files, names) ==
    /\ {files[k] : k \in 1..Len(files)} = names
    /\ Len(files) = Cardinality(names)

\* C14: the file list of a batch run holds exactly the entries of the folder
\* whose name ends, case ignored, with a supported extension, in the order of
\* the numbers in the names (section_2 before section_10); the sequential
\* loop handles the files in that order and the joint runs of both agents
\* pass the encoded ones in that order.
C14_NaturalOrderOfSupportedFiles ==
    (pc # "start" /\ folder_isdir) =>
        /\ ListsExactly(image_files, listing \cap ImageNames)
        /\ InNumberOrder(image_files)
        /\ mode = "sequential" =>
              /\ Len(slot_owner) <= Len(image_files)
              /\ \A k \in 1..Len(slot_owner) : slot_owner[k] = image_files[k]
        /\ (mode \in {"joint", "legacy"} /\ invoked # <<>>) =>
              /\ ListsExactly(invoked[1].screenshots,
                              (listing \cap ImageNames) \ unreadable)
              /\ InNumberOrder(invoked[1].screenshots)

\* a folder with a text file, section_10 and section_2: both images were
\* handled, section_2 first
C14_Witness ==
    /\ mode = "sequential"
    /\ pc = "done"
    /\ listing = {Chars("notes.txt"), Chars("section_10.jpg"), Chars("section_2.jpg")}
    /\ image_files = <<Chars("section_2.jpg"), Chars("section_10.jpg")>>
    /\ slot_owner = image_files


(***************************************************************************)
(* Properties of the constructor and of the prompt file (SpecAgent)        *)
(***************************************************************************)
\* the chat model classes of the three providers
KnownClients == {"ChatOpenAI", "ChatGoogleGenerativeAI", "ChatBedrock"}

\* C15: the constructor given a provider other than openai, google and
\* bedrock raises its ValueError and leaves nothing behind (no agent, no call
\* of os.makedirs, no client); given one of the three it returns an agent,
\* and _get_llm then builds a client of that provider and never raises its
\* NotImplementedError.
C15_ProviderCheckedAtConstruction ==
    /\ provider \notin {"openai", "google", "bedrock"} =>
          /\ ~agent_exists
          /\ ~makedirs_called
          /\ client = "none"
          /\ pc \in {"construct", "construct_raised"}
          /\ pc = "construct_raised" => raised = Exc(ProviderValueError, "none")
    /\ provider \in {"openai", "google", "bedrock"} =>
          /\ pc # "construct_raised"
          /\ pc # "construct" => (agent_exists /\ makedirs_called)
          /\ raised.msg # NotSupportedError
          /\ (prompt_ok /\ pc \notin {"construct", "agent"}) => client \in KnownClients

\* the constructor was given "azure" and raised
C15_Witness ==
    /\ provider = "azure"
    /\ pc = "construct_raised"
    /\ raised = Exc(ProviderValueError, "none")
    /\ ~agent_exists

\* C16 (as claimed): an agent whose system prompt file cannot be read is
\* never constructed.
C16_MissingPromptFailsConstruction ==
    ~prompt_ok => ~agent_exists

\* C16 (amended): the constructor does not look at the system prompt file;
\* with a prompt file that cannot be read the agent is constructed, and each
\* call_agent raises "Not able to generate system prompt" before the client
\* is built, so that no provider call and no retry is made.
C16_MissingPromptFailsEachCall ==
    (~prompt_ok /\ agent_exists) =>
        /\ pc \in {"agent", "agent_raised"}
        /\ llm_called = {}
        /\ trace = <<>>
        /\ client = "none"
        /\ pc = "agent_raised" =>
              raised = Exc(Chars("Not able to generate system prompt"), "none")

\* call_agent of a constructed agent raised for the missing prompt
C16_Witness ==
    /\ ~prompt_ok
    /\ agent_exists
    /\ pc = "agent_raised"
    /\ raised.msg = Chars("Not able to generate system prompt")


(***************************************************************************)
(* Properties of the context id and of the slots (Spec)                    *)
(***************************************************************************)
\* the context id the running invocation set
OwnContext == [has |-> TRUE, id |-> CtxId(Len(invoked))]

\* C17: in every call_agent invocation of a batch run, of either agent, the
\* context id is set before anything is logged and before the provider is
\* called: every message logged carries the id of its own invocation, no
\* log_message raises for a missing id, and the provider is only called
\* while the thread holds the id of the invocation.
C17_ContextSetBeforeLogAndCall ==
    /\ \A k \in 1..Len(logged) :
          logged[k].prefixed /\ logged[k].id = CtxId(Len(invoked))
    /\ raised.msg # InvalidContextError
    /\ trace # <<>> => ctx = OwnContext

\* the second invocation of a sequential run: a provider call failed and was
\* logged under the id of that invocation
C17_Witness ==
    /\ mode = "sequential"
    /\ Len(invoked) = 2
    /\ pc = "llm_returned"
    /\ ctx = OwnContext
    /\ \E k \in 1..Len(logged) :
          /\ logged[k].text = "API call attempt failed"
          /\ logged[k].id = CtxId(2)

\* every call_agent invocation made so far is over
InvocationsOver ==
    /\ invoked # <<>>
    /\ pc \in {"agent_returned", "agent_raised", "llm_raised", "legacy_returned",
               "legacy_raised", "loop", "done", "crashed"}

\* C18 (as claimed): once a call_agent invocation has returned or raised,
\* the thread holds no context id.
C18_ContextClearedAfterInvocation ==
    InvocationsOver => ~ctx.has

\* the last slot was appended for an image that was encoded and for which
\* call_agent returned: agent_result is what call_agent returned for it
LastSlotHoldsResult ==
    /\ mode = "sequential"
    /\ pc \in {"loop", "done"}
    /\ all_extracted_data # <<>>
    /\ image_files[Len(all_extracted_data)] \notin unreadable
    /\ Len(all_extracted_data) \notin failed

LastSlot == all_extracted_data[Len(all_extracted_data)]

\* C20 (as claimed): the slot of a successfully invoked image holds what
\* call_agent returned, unchanged, whatever its shape.
C20_SlotIsResultUnchanged ==
    LastSlotHoldsResult => LastSlot = agent_result

\* C20 (amended): the slot of a successfully invoked image holds what
\* call_agent returned, unchanged, except that a returned array of exactly
\* one item is replaced by that item.
C20_SlotIsResultUnlessSingleton ==
    LastSlotHoldsResult =>
        LastSlot = (IF agent_result.kind = "arr" /\ Len(agent_result.val) = 1
                    THEN agent_result.val[1]
                    ELSE agent_result)

\* an array of two items is stored as it is, after an array of one object
\* that was stored as the object
C20_Witness ==
    /\ LastSlotHoldsResult
    /\ Len(all_extracted_data) = 2
    /\ all_extracted_data[1] = ObjA1Value
    /\ response = NoResponse
    /\ agent_result = JArr(<<JNum(1), JNum(20)>>)
    /\ LastSlot = agent_result
    /\ invoked[1].screenshots # invoked[2].screenshots


(***************************************************************************)
(* Order and short circuit of the reconciler (SpecCompare)                 *)
(***************************************************************************)
\* the comparison cannot go past position p of file_paths: the file there
\* cannot be loaded, or it is a candidate whose diff against the reference
\* is not empty
StopsAt(p) ==
    LET f == fs[file_paths[p]]
    IN  \/ ~HoldsDoc(f)
        \/ /\ p > 1
           /\ HoldsDoc(fs[file_paths[1]])
           /\ HasDiff(Reference, DocOf(f))

\* the first such position, or the position after the last path
FirstStop ==
    LET stops == {p \in 1..Len(file_paths) : StopsAt(p)}
    IN  IF stops = {} THEN Len(file_paths) + 1
        ELSE CHOOSE p \in stops : \A q \in stops : p <= q

\* C21 (as claimed): with two or more paths the files are opened in list
\* order and never past the first one that cannot be loaded or mismatches the
\* reference; the comparison stops there and returns FAILED; SUCCESS is
\* returned only after every path was opened and every candidate matched.
C21_StopsWithFailedAtFirstFailure ==
    Len(file_paths) >= 2 =>
        /\ opened = [k \in 1..Len(opened) |-> k]
        /\ Len(opened) <= FirstStop
        /\ (CmpOver /\ FirstStop <= Len(file_paths)) =>
              /\ Len(opened) = FirstStop
              /\ pc = "cmp_done"
              /\ cmp_result = "FAILED"
        /\ cmp_result = "SUCCESS" =>
              (FirstStop = Len(file_paths) + 1 /\ Len(opened) = Len(file_paths))

(***************************************************************************)
(* Properties of the joint runs (Spec)                                     *)
(***************************************************************************)
\* a joint run of either agent over a folder with a supported image is over
JointOver ==
    /\ mode \in {"joint", "legacy"}
    /\ pc = "done"
    /\ folder_isdir
    /\ listing \cap ImageNames # {}

\* the one invocation of the run returned a value
JointReturned == Len(invoked) = 1 /\ failed = {}

\* C22 (as claimed): a joint run over a folder with a supported image issues
\* exactly one invocation, which carries every supported image of the folder
\* in natural order, and the output file holds exactly the value that
\* invocation returned.
C22_OneInvocationCarriesAllImages ==
    JointOver =>
        /\ Len(invoked) = 1
        /\ invoked[1].screenshots = image_files
        /\ JointReturned =>
              /\ output_file.written
              /\ JsonLoads(output_file.text).ok
              /\ JsonLoads(output_file.text).val = agent_result

\* C22 (amended): the one invocation carries, in natural order, the supported
\* images that could be encoded; the newer function issues it only when there
\* is such an image and writes exactly the value it returned (nothing when it
\* raised); the older function issues it in any case and writes a list whose
\* only item is the returned value (the empty list when it raised).
C22_OneInvocationCarriesEncodedImages ==
    JointOver =>
        LET encodable == (listing \cap ImageNames) \ unreadable
            written == JsonLoads(output_file.text)
        IN  /\ Len(invoked) <= 1
            /\ Len(invoked) = 1 <=> (mode = "legacy" \/ encodable # {})
            /\ Len(invoked) = 1 =>
                  /\ ListsExactly(invoked[1].screenshots, encodable)
                  /\ InNumberOrder(invoked[1].screenshots)
            /\ mode = "joint" =>
                  /\ output_file.written <=> JointReturned
                  /\ JointReturned =>
                        /\ written.ok
                        /\ written.val = agent_result
                        /\ returned.val = agent_result
            /\ mode = "legacy" =>
                  /\ output_file.written
                  /\ written.ok
                  /\ written.val =
                        JArr(IF JointReturned THEN <<agent_result>> ELSE <<>>)

\* three images of which section_2.jpg cannot be encoded: the newer function
\* passes the other two, section_1 first, and writes the object it got back
C22_Witness ==
    /\ JointOver
    /\ mode = "joint"
    /\ image_files = <<Chars("section_1.jpg"), Chars("section_2.jpg"),
                       Chars("section_10.jpg")>>
    /\ unreadable = {Chars("section_2.jpg")}
    /\ invoked = <<Invocation(joint_request_id,
                              <<Chars("section_1.jpg"), Chars("section_10.jpg")>>)>>
    /\ agent_result = ObjA1Value
    /\ output_file.text = Dumps(ObjA1Value, 2, 0)

(***************************************************************************)
(* Provider calls of a sequential run (Spec)                               *)
(***************************************************************************)
\* C23: during a sequential run at most one provider call is in flight; it
\* is a call for the image the loop is at, issued after every earlier
\* attempt for that image has failed and is over, after every earlier image
\* got its slot, and no call was ever issued for a later image (calls go out
\* in the order of the file list).
C23_OneProviderCallAtATime ==
    mode = "sequential" =>
        /\ Cardinality(in_flight) <= 1
        /\ \A c \in in_flight :
              /\ c.i = idx
              /\ Len(CallsOf(trace)) = c.attempt
              /\ \A p \in 1..Len(trace) :
                    trace[p].ev = "call" => (~trace[p].ok /\ trace[p].i < c.attempt)
              /\ Len(all_extracted_data) = c.i - 1
              /\ \A k \in 1..(c.i - 1) : slot_owner[k] = image_files[k]
              /\ \A j \in llm_called : j <= c.i

\* the second attempt for the second of two images is in flight after the
\* first image took two attempts
C23_Witness ==
    /\ mode = "sequential"
    /\ Len(image_files) = 2
    /\ in_flight = {[i |-> 2, attempt |-> 1]}
    /\ llm_called = {1, 2}
    /\ slot_owner = <<image_files[1]>>
    /\ all_extracted_data = <<ObjA1Value>>

(***************************************************************************)
(* The audit files of a sequential run (Spec)                              *)
(***************************************************************************)
\* C24 (as claimed): in a sequential run the audit files written for two
\* distinct image files are at distinct paths, so that no audit file of one
\* request is overwritten by another request of the run.
C24_AuditPathsDistinctPerImage ==
    mode = "sequential" =>
        \A a, b \in 1..Len(audit_writes) :
            invoked[audit_writes[a].by].screenshots
               # invoked[audit_writes[b].by].screenshots
            => audit_writes[a].path # audit_writes[b].path

(***************************************************************************)
(* The messages of an invocation (Spec)                                    *)
(***************************************************************************)
\* C25: for the k >= 0 screenshots of an invocation the human message holds
\* exactly k image blocks, the j-th of them with the j-th screenshot, and
\* exactly one text block, and nothing else; the image-free variant holds
\* that same text block and no image block.
C25_OneImageBlockPerScreenshot ==
    messages.made =>
        LET screenshots == ThisInvocation.screenshots
            images == SelectSeq(messages.human_message,
                                LAMBDA b : b.type = "image_url")
            texts == SelectSeq(messages.human_message, LAMBDA b : b.type = "text")
        IN  /\ Len(images) = Len(screenshots)
            /\ \A j \in 1..Len(screenshots) :
                  images[j].url = Chars("data:image/jpeg;base64,") \o screenshots[j]
            /\ Len(texts) = 1
            /\ Len(messages.human_message) = Len(screenshots) + 1
            /\ messages.human_message_without_image = texts

\* a joint run over three images: three image blocks, section_10 last, then
\* the text block
C25_Witness ==
    /\ mode = "joint"
    /\ messages.made
    /\ ThisInvocation.screenshots =
          <<Chars("section_1.jpg"), Chars("section_2.jpg"), Chars("section_10.jpg")>>
    /\ Len(messages.human_message) = 4
    /\ messages.human_message[3] = ImageBlock(Chars("section_10.jpg"))
    /\ messages.human_message[4].type = "text"
    /\ messages.human_message_without_image = <<messages.human_message[4]>>

(***************************************************************************)
(* Fence markers of a response (SpecAgent)                                 *)
(***************************************************************************)
\* the text begins with p, ends with p
BeginsWith(t, p) == Len(t) >= Len(p) /\ SubSeq(t, 1, Len(p)) = p
EndsIn(t, p) == Len(t) >= Len(p) /\ SubSeq(t, Len(t) - Len(p) + 1, Len(t)) = p

\* what call_agent returns for a text content when the text parsed is t
ResultOfParsing(t) ==
    IF JsonLoads(t).ok THEN JsonLoads(t).val ELSE ParseErrorValue(response.content)

\* call_agent returned for a response whose content is a text
ReturnedForText == pc = "agent_returned" /\ response.content.kind = "str"

\* C26 (as claimed): a response whose trimmed text does not begin with the
\* JSON fence is parsed as its trimmed text, nothing else removed; with a
\* closing marker at its end it is a parse error.
C26_NoFenceNothingStripped ==
    (ReturnedForText /\ ~BeginsWith(Strip(response.content.val), JsonFence)) =>
        LET trimmed == Strip(response.content.val)
        IN  /\ agent_result = ResultOfParsing(trimmed)
            /\ EndsIn(trimmed, CloseFence) =>
                  agent_result = ParseErrorValue(response.content)

\* C26 (amended): the two markers are removed independently of each other:
\* the opening marker when the trimmed text begins with it, then the closing
\* marker when what is left ends with it; what remains is trimmed again and
\* parsed. A JSON text followed by a closing marker alone is therefore
\* parsed to its value, and so is one that follows an opening marker alone.
C26_MarkersStrippedIndependently ==
    ReturnedForText =>
        LET trimmed == Strip(response.content.val)
            unopened == IF BeginsWith(trimmed, JsonFence)
                      THEN SubSeq(trimmed, Len(JsonFence) + 1, Len(trimmed))
                      ELSE trimmed
            unclosed == IF EndsIn(unopened, CloseFence)
                      THEN SubSeq(unopened, 1, Len(unopened) - Len(CloseFence))
                      ELSE unopened
        IN  /\ agent_result = ResultOfParsing(Strip(unclosed))
            /\ response.content.val \in HalfFencedTexts \ {NotJson \o CloseFence}
                  => agent_result = ObjA1Value

\* {"a": 1} followed by a closing marker, without any opening marker
C26_Witness ==
    /\ ReturnedForText
    /\ response.content.val = ObjA1 \o <<"\n">> \o CloseFence
    /\ agent_result = ObjA1Value

(***************************************************************************)
(* The older agent: retry and parse (Spec)                                 *)
(***************************************************************************)
\* C27 (as claimed): call_llm_agent_with_retry makes at most retries calls,
\* waits 2^i after the failed attempt i before it calls again, returns the
\* response of the first call that succeeds, which is its last call, and
\* raises only after retries failed calls.
C27_LegacyRetriesWithBackoff ==
    mode = "legacy" =>
        LET calls == CallsOf(trace)
        IN  /\ Len(calls) <= retries
            /\ \A p \in 1..Len(trace) :
                  (trace[p].ev = "call" /\ p < Len(trace)) =>
                     /\ ~trace[p].ok
                     /\ trace[p + 1].ev = "wait"
                     /\ trace[p + 1].dur = 2 ^ trace[p].i
            /\ pc = "legacy_llm_returned" =>
                  (calls[Len(calls)].ok /\ response = calls[Len(calls)].res)
            /\ (pc = "legacy_raised"
                  /\ raised.msg = Chars("API call failed after retries")) =>
                  (Len(calls) = retries /\ \A j \in 1..Len(calls) : ~calls[j].ok)

\* the content is not a JSON text
NotValidJson(content) == content.kind # "str" \/ ~JsonLoads(content.val).ok

\* C28 (as claimed): in the older call_agent a response that is not valid
\* JSON becomes an error value returned as data: no exception leaves
\* call_agent, and the batch result that is written holds an entry for it.
C28_LegacyParseErrorIsData ==
    (mode = "legacy" /\ response.isMessage /\ NotValidJson(response.content)) =>
        /\ pc # "legacy_raised"
        /\ pc = "done" =>
              /\ Len(all_extracted_data) = 1
              /\ output_file.text # Dumps(JArr(<<>>), NoIndent, 0)

(***************************************************************************)
(* The retrying invoker never returns nothing (SpecRetry)                  *)
(***************************************************************************)
\* C29 (as claimed): for every value of retries, 0 included, when
\* _call_llm_with_retry completes normally it returns the response of a
\* provider call that succeeded, never None.
C29_NeverReturnsNone ==
    pc = "llm_returned" =>
        /\ response.isMessage
        /\ \E p \in 1..Len(trace) :
              trace[p].ev = "call" /\ trace[p].ok /\ trace[p].res = response

(***************************************************************************)
(* The functions of utils/qa_logging.py, called in any order on one thread *)
(***************************************************************************)
\* the context ids a caller sets; None is one of them
ApiIds == {JNull, CtxId(1), CtxId(2)}

ApiResult(op, raises, val) == [op |-> op, raises |-> raises, val |-> val]

\* the variables of the other entry points
ApiFrame ==
    <<retries, attempt, trace, response, raised, llm_called, failed>>

\* set_thread_context_id(context_id)
ApiSet ==
    /\ UNCHANGED callVars
    /\ UNCHANGED gatherVars
    /\ pc = "api"
    /\ \E context_id \in ApiIds : ctx' = set_thread_context_id(ctx, context_id)
    /\ api_result' = ApiResult("set", FALSE, JNull)
    /\ UNCHANGED <<pc, logged, ApiFrame, batchVars, cmpVars, agentVars>>

\* get_thread_context_id()
ApiGet ==
    /\ UNCHANGED callVars
    /\ UNCHANGED gatherVars
    /\ pc = "api"
    /\ LET got == get_thread_context_id(ctx)
       IN  api_result' = ApiResult("get", got.raises, got.val)
    /\ UNCHANGED <<pc, ctx, logged, ApiFrame, batchVars, cmpVars, agentVars>>

\* clear_thread_context_id()
ApiClear ==
    /\ UNCHANGED callVars
    /\ UNCHANGED gatherVars
    /\ pc = "api"
    /\ ctx' = clear_thread_context_id(ctx)
    /\ api_result' = ApiResult("clear", FALSE, JNull)
    /\ UNCHANGED <<pc, logged, ApiFrame, batchVars, cmpVars, agentVars>>

\* log_message("message")
ApiLog ==
    /\ UNCHANGED callVars
    /\ UNCHANGED gatherVars
    /\ pc = "api"
    /\ Len(logged) < MaxLogs
    /\ LET said == log_message(logged, ctx, "message")
       IN  /\ logged' = said.logged
           /\ api_result' = ApiResult("log", said.raises, JNull)
    /\ UNCHANGED <<pc, ctx, ApiFrame, batchVars, cmpVars, agentVars>>

\* a thread that has not called any of the functions yet
InitLogging ==
    /\ mode = "logging"
    /\ pc = "api"
    /\ retries = DefaultRetries
    /\ attempt = 0
    /\ trace = <<>>
    /\ response = NoResponse
    /\ raised = NoExc
    /\ BatchIdle
    /\ CompareIdle
    /\ AgentIdle
    /\ ctx = NoContext
    /\ LogQuiet
    /\ CallIdle
    /\ GatherIdle

NextLogging ==
    \/ ApiSet
    \/ ApiGet
    \/ ApiClear
    \/ ApiLog

SpecLogging == InitLogging /\ [][NextLogging]_vars

\* C19 (as claimed): on a thread that holds no context id, because none was
\* set or because it was cleared, get_thread_context_id returns None without
\* raising and log_message logs the message without a prefix, without
\* raising.
C19_UnsetContextIsNotAnError ==
    /\ (api_result.op = "get" /\ ~ctx.has) =>
          (~api_result.raises /\ api_result.val = JNull)
    /\ (api_result.op = "log" /\ ~ctx.has) =>
          /\ ~api_result.raises
          /\ logged # <<>>
          /\ ~logged[Len(logged)].prefixed

(***************************************************************************)
(* Several call_agent invocations awaited together on one thread           *)
(* (SpecGather): asyncio.gather(agent.call_agent(1, ...), ...) on one      *)
(* event loop. A coroutine runs without interruption from one await to the *)
(* next; the awaits that suspend it are llm.ainvoke and asyncio.sleep. The *)
(* storage of qa_logging is per thread, so the coroutines share it.        *)
(***************************************************************************)
\* the invocations awaited together
MaxTasks == 2
\* the provider calls of one invocation that fail
MaxGatherFailures == 1

\* what the provider answers with
GatherContents == {JStr(ObjA1), JStr(NotJson)}

\* request_id of the t-th invocation
gather_request_id(t) == NatText(t)

\* a coroutine before its first step
NewTask == [pc |-> "start", attempt |-> 0, result |-> JNull]

\* the coroutine t goes on to the state st
TaskIs(t, st) == tasks' = [tasks EXCEPT ![t] = st]

\* the messages after lg were logged by the coroutine t
OwnedBy(t, lg) ==
    log_owner' = log_owner \o [k \in 1..(Len(lg) - Len(logged)) |-> t]

\* the variables of the other entry points
GatherFrame ==
    <<pc, retries, attempt, trace, response, raised, llm_called, failed,
      messages, api_result, provider, agent_exists, makedirs_called>>

\* call_agent of the coroutine t up to its first await: the context id is
\* set in the storage of the thread, the prompt is assembled, the audit
\* input is written, the client is built and the first provider call is
\* issued
GatherCallAgentPrologue(t) ==
    /\ pc = "loop"
    /\ tasks[t].pc = "start"
    /\ LET c == set_thread_context_id(ctx, CtxId(t))
           said == LogAll(logged, c, PromptLogTexts(prompt_ok))
           llm == get_llm(provider)
       IN  /\ ctx' = c
           /\ logged' = said.logged
           /\ OwnedBy(t, said.logged)
           /\ IF said.raises \/ PromptRaises(prompt_ok) \/ llm.raises
              THEN /\ TaskIs(t, [tasks[t] EXCEPT !.pc = "raised"])
                   /\ UNCHANGED <<in_flight, audit_writes, client>>
              ELSE /\ TaskIs(t, [tasks[t] EXCEPT !.pc = "awaiting"])
                   /\ in_flight' = in_flight \cup {[i |-> t, attempt |-> 0]}
                   /\ audit_writes' =
                         Append(audit_writes,
                                AuditWrite(ai_step_input_path(gather_request_id(t)), t))
                   /\ client' = llm.client
    /\ UNCHANGED <<GatherFrame, batchVars, cmpVars>>

\* the provider answers the call of the coroutine t, which goes on to the
\* end of call_agent: parse, log, write the audit output, return
GatherAttemptSucceeds(t) ==
    /\ pc = "loop"
    /\ tasks[t].pc = "awaiting"
    /\ in_flight' = in_flight \ {[i |-> t, attempt |-> tasks[t].attempt]}
    /\ \E c \in GatherContents :
          LET parsed == ParseResponse(AIMessage(c))
              said == LogAll(logged, ctx, ParseLogTexts(parsed))
          IN  /\ logged' = said.logged
              /\ OwnedBy(t, said.logged)
              /\ audit_writes' =
                    IF said.raises \/ parsed.raises \/ parsed.handled
                    THEN audit_writes
                    ELSE Append(audit_writes,
                                AuditWrite(ai_step_output_path(gather_request_id(t)), t))
              /\ IF said.raises \/ parsed.raises
                 THEN TaskIs(t, [tasks[t] EXCEPT !.pc = "raised"])
                 ELSE TaskIs(t, [tasks[t] EXCEPT !.pc = "returned",
                                                 !.result = parsed.val])
    /\ UNCHANGED <<GatherFrame, batchVars, cmpVars, ctx, client>>

\* the call of the coroutine t fails: log_message, raise on the last attempt,
\* else await asyncio.sleep
GatherAttemptFails(t) ==
    /\ pc = "loop"
    /\ tasks[t].pc = "awaiting"
    /\ tasks[t].attempt < MaxGatherFailures
    /\ in_flight' = in_flight \ {[i |-> t, attempt |-> tasks[t].attempt]}
    /\ LET said == log_message(logged, ctx, "API call attempt failed")
       IN  /\ logged' = said.logged
           /\ OwnedBy(t, said.logged)
           /\ IF said.raises \/ IsLastAttempt(tasks[t].attempt, DefaultRetries)
              THEN TaskIs(t, [tasks[t] EXCEPT !.pc = "raised"])
              ELSE TaskIs(t, [tasks[t] EXCEPT !.pc = "sleep"])
    /\ UNCHANGED <<GatherFrame, batchVars, cmpVars, ctx, client, audit_writes>>

\* the sleep of the coroutine t is over: the next iteration issues the next
\* provider call
GatherBackoff(t) ==
    /\ pc = "loop"
    /\ tasks[t].pc = "sleep"
    /\ TaskIs(t, [tasks[t] EXCEPT !.pc = "awaiting", !.attempt = @ + 1])
    /\ in_flight' = in_flight \cup {[i |-> t, attempt |-> tasks[t].attempt + 1]}
    /\ UNCHANGED <<GatherFrame, batchVars, cmpVars, logVars, log_owner, client,
                   audit_writes>>

\* an event loop that was handed MaxTasks call_agent coroutines of one agent
InitGather ==
    /\ mode = "gather"
    /\ pc = "loop"
    /\ retries = DefaultRetries
    /\ attempt = 0
    /\ trace = <<>>
    /\ response = NoResponse
    /\ raised = NoExc
    /\ BatchIdle
    /\ CompareIdle
    /\ provider = "bedrock"
    /\ agent_exists = TRUE
    /\ makedirs_called = TRUE
    /\ client = "none"
    /\ ctx \in {NoContext, set_thread_context_id(NoContext, CtxId(0))}
    /\ LogQuiet
    /\ CallIdle
    /\ tasks = [t \in 1..MaxTasks |-> NewTask]
    /\ log_owner = <<>>

NextGather ==
    \/ \E t \in 1..MaxTasks : GatherCallAgentPrologue(t)
    \/ \E t \in 1..MaxTasks : GatherAttemptSucceeds(t)
    \/ \E t \in 1..MaxTasks : GatherAttemptFails(t)
    \/ \E t \in 1..MaxTasks : GatherBackoff(t)

SpecGather == InitGather /\ [][NextGather]_vars

\* C30 (as claimed): whatever the interleaving of the invocations awaited
\* together on one thread, every message logged on behalf of an invocation
\* carries the context id that this invocation set.
C30_LogsCarryOwnContextId ==
    \A k \in 1..Len(logged) :
        logged[k].prefixed /\ logged[k].id = CtxId(log_owner[k])

=============================================================================
